---- MODULE Spec2Model ----
(***************************************************************************)
(* Model of the Server Actions / Cache Functions transform                 *)
(* (crates/next-custom-transforms/src/transforms/server_actions.rs).       *)
(*                                                                         *)
(* The pass is a VisitMut over an swc AST.  AST nodes are records with a   *)
(* tag field t; Option<T> is the empty or one-element sequence; Vec<T> is  *)
(* a sequence.  Strings that the pass inspects character by character      *)
(* (string literals of directives) are sequences of one-character strings; *)
(* symbols, export names and action ids are TLA+ strings.                  *)
(* The visitor is a family of recursive operators that thread the          *)
(* ServerActions struct (a record) through the depth-first walk and return *)
(* [n |-> rewritten node, s |-> struct after the visit].                   *)
(***************************************************************************)
EXTENDS Integers, Sequences, FiniteSets, TLC

VARIABLES
    pc,        \* position of the pass: "start", "items", "done"
    stmts,     \* module items still to be visited by visit_mut_module_items
    new,       \* the `new` vector of visit_mut_module_items (output module)
    self,      \* the ServerActions struct (config and file_name included)
    comments,  \* leading comments attached through the Comments handle
    input,     \* the module as parsed (kept to state properties of the pass)
    fnIn,      \* harness: inputs of the pure function under check
    fnOut      \* harness: result of the pure function under check

vars == <<pc, stmts, new, self, comments, input, fnIn, fnOut>>

(***************************************************************************)
(* Bounds of the model.                                                    *)
(***************************************************************************)
MaxItems == 2
MaxNames == 3

(***************************************************************************)
(* Option and sequence helpers.                                            *)
(***************************************************************************)
None == <<>>
Some(v) == <<v>>
IsSome(o) == o # <<>>
Unwrap(o) == o[1]

Range(s) == {s[i] : i \in 1..Len(s)}

RECURSIVE Flatten(_)
Flatten(ss) == IF ss = <<>> THEN <<>> ELSE Head(ss) \o Flatten(Tail(ss))

\* Vec::contains
Contains(s, v) == \E i \in 1..Len(s) : s[i] = v

\* Iterator::position
Position(s, v) ==
    IF Contains(s, v) THEN Some(CHOOSE i \in 1..Len(s) : s[i] = v /\ \A j \in 1..(i - 1) : s[j] # v)
    ELSE None

\* Vec::rotate_right(k)
RotateRight(s, k) == SubSeq(s, Len(s) - k + 1, Len(s)) \o SubSeq(s, 1, Len(s) - k)

(***************************************************************************)
(* Characters of the string literals the directive scanner compares.       *)
(***************************************************************************)
UseServer == <<"u", "s", "e", " ", "s", "e", "r", "v", "e", "r">>
UseCache == <<"u", "s", "e", " ", "c", "a", "c", "h", "e">>
UseCachePrefix == UseCache \o <<":", " ">>
DefaultKind == <<"d", "e", "f", "a", "u", "l", "t">>

StartsWith(v, p) == Len(v) >= Len(p) /\ SubSeq(v, 1, Len(p)) = p

(***************************************************************************)
(* Identifiers.  An Ident is a symbol and a SyntaxContext; to_id() is the  *)
(* same pair.  Contexts are numbers: 0 is SyntaxContext::empty(), the      *)
(* resolver gives 1 to module-level bindings and a number of its own to    *)
(* every function scope; marks made by Mark::new() come from next_mark.    *)
(***************************************************************************)
EmptyCtxt == 0
TopLevelCtxt == 1
FirstMark == 10

Ident(sym, ctxt) == [sym |-> sym, ctxt |-> ctxt]
QuoteIdent(sym) == Ident(sym, EmptyCtxt)

(***************************************************************************)
(* AST constructors (swc_core::ecma::ast).                                 *)
(***************************************************************************)
\* expressions
EIdent(i) == [t |-> "Ident", id |-> i]
EMember(obj, prop) == [t |-> "Member", obj |-> obj, prop |-> [t |-> "Ident", sym |-> prop]]
EComputed(obj, e) == [t |-> "Member", obj |-> obj, prop |-> [t |-> "Computed", expr |-> e]]
EOptChain(obj, prop, optional) ==
    [t |-> "OptChain", obj |-> obj, prop |-> [t |-> "Ident", sym |-> prop], optional |-> optional]
ECall(callee, args) == [t |-> "Call", callee |-> callee, args |-> args]
EStr(value) == [t |-> "Str", value |-> value]
ESym(text) == [t |-> "StrSym", text |-> text]   \* a generated string literal (id, kind)
ENull == [t |-> "Null"]
ENum == [t |-> "Num"]
EUndefined == [t |-> "Undefined"]
EParen(e) == [t |-> "Paren", expr |-> e]
EAwait(e) == [t |-> "Await", arg |-> e]
EBin(l, r) == [t |-> "Bin", left |-> l, right |-> r]
EArray(elems) == [t |-> "Array", elems |-> elems]
EObject(props) == [t |-> "Object", props |-> props]
EAssign(target, right) == [t |-> "Assign", target |-> target, right |-> right]
EFn(ident, function) == [t |-> "Fn", ident |-> ident, function |-> function]
EArrow(params, body, is_async, ctxt) ==
    [t |-> "Arrow", params |-> params, arrowBody |-> body, is_async |-> is_async, ctxt |-> ctxt]

\* AssignTarget: SimpleAssignTarget::Ident(BindingIdent) or ::Member(MemberExpr)
TIdent(i) == [t |-> "TIdent", id |-> i]
TMember(m) == [t |-> "TMember", member |-> m]

\* object literal properties
PShorthand(i) == [t |-> "Shorthand", id |-> i]
PKeyValue(key, value) == [t |-> "KeyValue", key |-> key, value |-> value]
PMethod(key, function) == [t |-> "Method", key |-> key, function |-> function]

\* Function { params, body: Option<BlockStmt>, is_async } and arrow bodies
\* ctxt stands for the scope the resolver gave the function: the bindings the
\* function declares carry it as their SyntaxContext.
Function(params, body, is_async, ctxt) ==
    [params |-> params, body |-> body, is_async |-> is_async, ctxt |-> ctxt]
Block(ss) == [t |-> "BlockStmt", stmts |-> ss]
BodyExpr(e) == [t |-> "Expr", expr |-> e]
\* Function::dummy(), what Take::take leaves behind
DummyFunction == Function(<<>>, None, FALSE, EmptyCtxt)
InvalidExpr == [t |-> "Invalid"]

\* patterns
PatIdent(i) == [t |-> "PatIdent", id |-> i]
PatArray(elems) == [t |-> "PatArray", elems |-> elems]
PatAssign(left, right) == [t |-> "PatAssign", left |-> left, right |-> right]
PatRest(arg) == [t |-> "PatRest", arg |-> arg]
PatObject(props) == [t |-> "PatObject", props |-> props]
OPKeyValue(key, value) == [t |-> "OPKeyValue", key |-> key, value |-> value]
OPAssign(key) == [t |-> "OPAssign", key |-> key]
Param(pat) == [t |-> "Param", pat |-> pat]

\* declarations and statements
VarDeclarator(name, init) == [name |-> name, init |-> init]
DVar(decls) == [t |-> "Var", decls |-> decls]
DFn(ident, function) == [t |-> "FnDecl", ident |-> ident, function |-> function]
DClass(ident) == [t |-> "Class", ident |-> ident]
SExpr(e) == [t |-> "ExprStmt", expr |-> e]
SReturn(e) == [t |-> "Return", arg |-> Some(e)]
SDecl(d) == [t |-> "Decl", decl |-> d]

\* module items
MStmt(s) == [t |-> "Stmt", stmt |-> s]
MExportDecl(d) == [t |-> "ExportDecl", decl |-> d]
MExportDefaultDecl(d) == [t |-> "ExportDefaultDecl", decl |-> d]
MExportDefaultExpr(e) == [t |-> "ExportDefaultExpr", expr |-> e]
MExportNamed(specifiers, src) == [t |-> "ExportNamed", specifiers |-> specifiers, src |-> src]
MExportAll == [t |-> "ExportAll"]
MImport(specifiers, src) == [t |-> "Import", specifiers |-> specifiers, src |-> src]
ImportSpec(local, imported) == [local |-> local, imported |-> imported]
ExportSpec(orig, exported) == [orig |-> orig, exported |-> exported]

(***************************************************************************)
(* Name(Id, Vec<NamePart>) and its conversions.                            *)
(***************************************************************************)
NamePart(prop, is_member, optional) ==
    [prop |-> prop, is_member |-> is_member, optional |-> optional]
Name(id, parts) == [id |-> id, parts |-> parts]

\* impl From<&Ident> for Name
NameFromIdent(i) == Name(i, <<>>)

\* impl TryFrom<&Expr> for Name (with the MemberExpr and OptChainExpr impls):
\* Some(name) for Ok(name), None for Err(()).
RECURSIVE NameTryFrom(_)
NameTryFrom(e) ==
    CASE e.t = "Ident" -> Some(Name(e.id, <<>>))
      [] e.t = "Member" ->
            IF e.prop.t = "Ident"
            THEN LET obj == NameTryFrom(e.obj)
                 IN IF IsSome(obj)
                    THEN Some(Name(Unwrap(obj).id,
                                   Append(Unwrap(obj).parts, NamePart(e.prop.sym, TRUE, FALSE))))
                    ELSE None
            ELSE None
      [] e.t = "OptChain" ->
            LET obj == NameTryFrom(e.obj)
            IN IF IsSome(obj)
               THEN Some(Name(Unwrap(obj).id,
                              Append(Unwrap(obj).parts, NamePart(e.prop.sym, FALSE, e.optional))))
               ELSE None
      [] OTHER -> None

\* impl From<Name> for Box<Expr>
RECURSIVE NameToExprAux(_, _)
NameToExprAux(expr, parts) ==
    IF parts = <<>> THEN expr
    ELSE LET p == Head(parts)
         IN NameToExprAux(IF p.is_member THEN EMember(expr, p.prop)
                          ELSE EOptChain(expr, p.prop, p.optional),
                          Tail(parts))
NameToExpr(name) == NameToExprAux(EIdent(name.id), name.parts)

(***************************************************************************)
(* retain_names_from_declared_idents                                       *)
(***************************************************************************)
\* the inner loop: some other name with the same base is a prefix of name
CoveredByAnother(name, child_names) ==
    \E k \in 1..Len(child_names) :
        LET another_name == child_names[k]
        IN /\ name # another_name
           /\ name.id = another_name.id
           /\ Len(name.parts) >= Len(another_name.parts)
           /\ \A i \in 1..Len(another_name.parts) : name.parts[i] = another_name.parts[i]

RECURSIVE RetainLoop(_, _, _, _)
RetainLoop(child_names, i, current_declared_idents, retained_names) ==
    IF i > Len(child_names) THEN retained_names
    ELSE LET name == child_names[i]
             should_retain == ~CoveredByAnother(name, child_names)
         IN RetainLoop(child_names, i + 1, current_declared_idents,
                       IF /\ should_retain
                          /\ \E j \in 1..Len(current_declared_idents) :
                                current_declared_idents[j] = name.id
                          /\ ~Contains(retained_names, name)
                       THEN Append(retained_names, name)
                       ELSE retained_names)

\* the names with a declared base, nothing merged
retain_names_from_declared_idents_unmerged(child_names, current_declared_idents) ==
    LET IsDeclared(name) == \E j \in 1..Len(current_declared_idents) :
                                current_declared_idents[j] = name.id
    IN SelectSeq(child_names, IsDeclared)

\* every name is retained
retain_names_from_declared_idents_all(child_names, current_declared_idents) == child_names

retain_names_from_declared_idents(child_names, current_declared_idents) ==
    RetainLoop(child_names, 1, current_declared_idents, <<>>)

(***************************************************************************)
(* collect_idents_in_pat and friends                                       *)
(***************************************************************************)
RECURSIVE collect_idents_in_pat(_, _)
RECURSIVE collect_idents_in_array_pat(_, _)
RECURSIVE collect_idents_in_object_pat(_, _)

collect_idents_in_pat(pat, idents) ==
    CASE pat.t = "PatIdent" -> Append(idents, pat.id)
      [] pat.t = "PatArray" -> collect_idents_in_array_pat(pat.elems, idents)
      [] pat.t = "PatObject" -> collect_idents_in_object_pat(pat.props, idents)
      [] pat.t = "PatAssign" -> collect_idents_in_pat(pat.left, idents)
      [] pat.t = "PatRest" ->
            IF pat.arg.t = "PatIdent" THEN Append(idents, pat.arg.id) ELSE idents
      [] OTHER -> idents

collect_idents_in_array_pat(elems, idents) ==
    IF elems = <<>> THEN idents
    ELSE LET elem == Head(elems)
             next == CASE elem.t = "PatIdent" -> Append(idents, elem.id)
                       [] elem.t = "PatArray" -> collect_idents_in_array_pat(elem.elems, idents)
                       [] elem.t = "PatObject" -> collect_idents_in_object_pat(elem.props, idents)
                       [] elem.t = "PatRest" ->
                             IF elem.arg.t = "PatIdent" THEN Append(idents, elem.arg.id)
                             ELSE idents
                       [] elem.t = "PatAssign" -> collect_idents_in_pat(elem.left, idents)
                       [] OTHER -> idents
         IN collect_idents_in_array_pat(Tail(elems), next)

collect_idents_in_object_pat(props, idents) ==
    IF props = <<>> THEN idents
    ELSE LET prop == Head(props)
             next ==
               CASE prop.t = "OPKeyValue" ->
                      LET withKey == Append(idents, Ident(prop.key, EmptyCtxt))
                      IN CASE prop.value.t = "PatIdent" -> Append(withKey, prop.value.id)
                           [] prop.value.t = "PatArray" ->
                                 collect_idents_in_array_pat(prop.value.elems, withKey)
                           [] prop.value.t = "PatObject" ->
                                 collect_idents_in_object_pat(prop.value.props, withKey)
                           [] OTHER -> withKey
                 [] prop.t = "OPAssign" -> Append(idents, prop.key)
                 [] prop.t = "PatRest" ->
                      IF prop.arg.t = "PatIdent" THEN Append(idents, prop.arg.id) ELSE idents
                 [] OTHER -> idents
         IN collect_idents_in_object_pat(Tail(props), next)

RECURSIVE collect_idents_in_var_decls(_, _)
collect_idents_in_var_decls(decls, idents) ==
    IF decls = <<>> THEN idents
    ELSE collect_idents_in_var_decls(Tail(decls), collect_idents_in_pat(Head(decls).name, idents))

collect_decl_idents_in_stmt(stmt, idents) ==
    IF stmt.t = "Decl" /\ stmt.decl.t = "Var"
    THEN collect_idents_in_var_decls(stmt.decl.decls, idents)
    ELSE idents

(***************************************************************************)
(* Generated names and ids.                                                *)
(***************************************************************************)
\* gen_action_ident / gen_cache_ident: the name; the caller adds 1 to the counter
gen_action_ident(cnt) == "$$RSC_SERVER_ACTION_" \o ToString(cnt)
gen_cache_ident(cnt) == "$$RSC_SERVER_CACHE_" \o ToString(cnt)
ActionArg(i) == "$$ACTION_ARG_" \o ToString(i)

\* generate_action_id: the hex SHA-1 of the bytes fed to the hasher.  SHA-1 is
\* taken to be collision free, so the digest is identified with its input: the
\* concatenation hash_salt ++ file_name ++ ":" ++ export_name.
generate_action_id(hash_salt, file_name, export_name) ==
    hash_salt \o file_name \o ":" \o export_name

(***************************************************************************)
(* detect_similar_strings                                                  *)
(***************************************************************************)
\* detect_similar_strings without the `diff != 0` test
detect_similar_strings_any(a0, b0) ==
    LET a == IF Len(a0) < Len(b0) THEN b0 ELSE a0
        b == IF Len(a0) < Len(b0) THEN a0 ELSE b0
    IN IF Len(a) = Len(b)
       THEN Cardinality({i \in 1..Len(a) : a[i] # b[i]}) <= 2
       ELSE Len(a) - Len(b) = 1 /\ \E i \in 1..Len(a) :
                SubSeq(a, 1, i - 1) \o SubSeq(a, i + 1, Len(a)) = b

detect_similar_strings(a0, b0) ==
    LET a == IF Len(a0) < Len(b0) THEN b0 ELSE a0
        b == IF Len(a0) < Len(b0) THEN a0 ELSE b0
    IN IF Len(a) = Len(b)
       THEN LET diff == Cardinality({i \in 1..Len(a) : a[i] # b[i]})
            IN diff <= 2 /\ diff # 0
       ELSE IF Len(a) - Len(b) > 1 THEN FALSE
       ELSE IF \E i \in 1..Len(b) : a[i] # b[i]
            THEN LET i == CHOOSE k \in 1..Len(b) :
                              a[k] # b[k] /\ \A j \in 1..(k - 1) : a[j] = b[j]
                 IN SubSeq(a, i + 1, Len(a)) = SubSeq(b, i, Len(b))
            ELSE TRUE

(***************************************************************************)
(* Diagnostics (HANDLER.with(|handler| handler.struct_span_err(..).emit())) *)
(***************************************************************************)
ErrDisabled == "To use Server Actions, please enable the feature flag in your Next.js config."
ErrInlineServerInClient ==
    "It is not allowed to define inline \"use server\" annotated Server Actions in Client Components."
ErrInlineCacheInClient ==
    "It is not allowed to define inline \"use cache\" annotated Cache Functions in Client Components."
ErrServerTopOfFn == "The \"use server\" directive must be at the top of the function body."
ErrCacheTopOfFn == "The \"use cache\" directive must be at the top of the function body."
ErrServerTopOfFile == "The \"use server\" directive must be at the top of the file."
ErrCacheTopOfFile == "The \"use cache\" directive must be at the top of the file."
ErrServerParen == "The \"use server\" directive cannot be wrapped in parentheses."
ErrCacheParen == "The \"use cache\" directive cannot be wrapped in parentheses."
ErrServerTopParen ==
    "The \"use server\" directive must be at the top of the file, and cannot be wrapped in parentheses."
ErrCacheTopParen ==
    "The \"use cache\" directive must be at the top of the file, and cannot be wrapped in parentheses."
ErrDidYouMeanServer == "Did you mean \"use server\"?"
ErrDidYouMeanCache == "Did you mean \"use cache\"?"
ErrActionsAsync == "Server actions must be async functions"
ErrArrowActionsAsync == "Server Actions must be async functions"
ErrCacheAsync == "Cache functions must be async functions"
ErrExport == "Only async functions are allowed to be exported in a \"use server\" file."

\* an emitted diagnostic: the message and the node whose span it is attached to
Diag(msg, at) == [msg |-> msg, at |-> at]
Emit(s, msg, at) == [s EXCEPT !.handler = Append(@, Diag(msg, at))]

(***************************************************************************)
(* remove_server_directive_index_in_fn: the retain closure, statement by   *)
(* statement.  acc carries the kept statements, the out-parameters and     *)
(* is_directive.                                                           *)
(***************************************************************************)
RECURSIVE FnDirectiveLoop(_, _, _)
FnDirectiveLoop(ss, acc, enabled) ==
    IF ss = <<>> THEN acc
    ELSE
      LET stmt == Head(ss)
          keep(a) == [a EXCEPT !.stmts = Append(@, stmt)]
          err(a, msg) == [a EXCEPT !.errors = Append(@, Diag(msg, "literal"))]
          next ==
            IF stmt.t = "ExprStmt" /\ stmt.expr.t = "Str"
            THEN LET value == stmt.expr.value
                 IN IF value = UseServer
                    THEN LET a1 == [acc EXCEPT !.action_span = Some("literal")]
                         IN IF acc.is_directive
                            THEN LET a2 == [a1 EXCEPT !.is_action_fn = TRUE]
                                 IN IF ~enabled THEN err(a2, ErrDisabled) ELSE a2
                            ELSE keep(err(a1, ErrServerTopOfFn))
                    ELSE IF detect_similar_strings(value, UseServer)
                    THEN keep(err(acc, ErrDidYouMeanServer))
                    ELSE IF value = UseCache \/ StartsWith(value, UseCachePrefix)
                    THEN IF acc.is_directive
                         THEN [acc EXCEPT !.cache_type =
                                  Some(IF value = UseCache THEN DefaultKind
                                       ELSE SubSeq(value, Len(UseCachePrefix) + 1, Len(value)))]
                         ELSE keep(err(acc, ErrCacheTopOfFn))
                    ELSE IF detect_similar_strings(value, UseCache)
                    THEN keep(err(acc, ErrDidYouMeanCache))
                    ELSE keep(acc)
            ELSE keep([acc EXCEPT !.is_directive = FALSE])
      IN FnDirectiveLoop(Tail(ss), next, enabled)

\* the scan with the string literals of the body moved to its top: a
\* directive is honoured wherever it stands
remove_server_directive_index_in_fn_anywhere(ss, enabled) ==
    LET str(st) == st.t = "ExprStmt" /\ st.expr.t = "Str"
        other(st) == ~str(st)
    IN FnDirectiveLoop(SelectSeq(ss, str) \o SelectSeq(ss, other),
                       [stmts |-> <<>>, is_action_fn |-> FALSE, cache_type |-> None,
                        action_span |-> None, errors |-> <<>>, is_directive |-> TRUE],
                       enabled)

remove_server_directive_index_in_fn(ss, enabled) ==
    FnDirectiveLoop(ss,
                    [stmts |-> <<>>, is_action_fn |-> FALSE, cache_type |-> None,
                     action_span |-> None, errors |-> <<>>, is_directive |-> TRUE],
                    enabled)

(***************************************************************************)
(* ServerActions::get_body_info.  maybe_body is Option<BlockStmt>; the     *)
(* result carries the body with its directives removed.                    *)
(***************************************************************************)
\* get_body_info reporting the inline directives on every layer
BodyInfo_every_layer(s, cfg, maybe_body, scan) ==
    LET at == IF IsSome(scan.action_span) THEN "literal" ELSE "body"
        s1 == [s EXCEPT !.handler = @ \o scan.errors]
        s2 == IF IsSome(maybe_body) /\ scan.is_action_fn /\ ~s.in_action_file
              THEN Emit(s1, ErrInlineServerInClient, at) ELSE s1
        s3 == IF IsSome(maybe_body) /\ IsSome(scan.cache_type) /\ ~IsSome(s.in_cache_file)
              THEN Emit(s2, ErrInlineCacheInClient, at) ELSE s2
        exported_action == s.in_export_decl /\ s.in_action_file
        exported_cache == s.in_export_decl /\ ~s.in_action_file /\ IsSome(s.in_cache_file)
    IN [is_action_fn |-> IF exported_action THEN TRUE ELSE scan.is_action_fn,
        cache_type |-> IF exported_cache THEN s.in_cache_file ELSE scan.cache_type,
        body |-> IF IsSome(maybe_body) THEN Some(Block(scan.stmts)) ELSE None,
        s |-> s3]

\* get_body_info after the scan of the body
BodyInfo(s, cfg, maybe_body, scan) ==
    LET at == IF IsSome(scan.action_span) THEN "literal" ELSE "body"
        s1 == [s EXCEPT !.handler = @ \o scan.errors]
        s2 == IF /\ IsSome(maybe_body)
                 /\ scan.is_action_fn /\ ~cfg.is_react_server_layer /\ ~s.in_action_file
              THEN Emit(s1, ErrInlineServerInClient, at) ELSE s1
        s3 == IF /\ IsSome(maybe_body)
                 /\ IsSome(scan.cache_type) /\ ~cfg.is_react_server_layer
                 /\ ~IsSome(s.in_cache_file)
              THEN Emit(s2, ErrInlineCacheInClient, at) ELSE s2
        exported_action == s.in_export_decl /\ s.in_action_file
        exported_cache == s.in_export_decl /\ ~s.in_action_file /\ IsSome(s.in_cache_file)
    IN [is_action_fn |-> IF exported_action THEN TRUE ELSE scan.is_action_fn,
        cache_type |-> IF exported_cache THEN s.in_cache_file ELSE scan.cache_type,
        body |-> IF IsSome(maybe_body) THEN Some(Block(scan.stmts)) ELSE None,
        s |-> s3]

get_body_info(s, cfg, maybe_body) ==
    BodyInfo(s, cfg, maybe_body,
             IF IsSome(maybe_body)
             THEN remove_server_directive_index_in_fn(Unwrap(maybe_body).stmts, cfg.enabled)
             ELSE [stmts |-> <<>>, is_action_fn |-> FALSE, cache_type |-> None,
                   action_span |-> None, errors |-> <<>>, is_directive |-> TRUE])

(***************************************************************************)
(* ClosureReplacer { used_ids, private_ctxt }: a VisitMut that overrides   *)
(* visit_mut_expr and visit_mut_prop_or_spread; every other node is walked *)
(* by the default visitor (children in field order).  An assignment target *)
(* `x = ..` is a SimpleAssignTarget::Ident(BindingIdent), not an Expr, so   *)
(* visit_mut_expr is not called on it; of a member target only the object  *)
(* is an Expr.                                                             *)
(***************************************************************************)
ClosureReplacer_index(used_ids, e) ==
    LET name == NameTryFrom(e)
    IN IF IsSome(name) THEN Position(used_ids, Unwrap(name)) ELSE None

RECURSIVE CR_with(_, _, _, _)
RECURSIVE CR_expr(_, _, _)
RECURSIVE CR_exprs(_, _, _)
RECURSIVE CR_props(_, _, _)
RECURSIVE CR_function(_, _, _)
RECURSIVE CR_stmts(_, _, _)
RECURSIVE CR_stmt(_, _, _)
RECURSIVE CR_pat(_, _, _)
RECURSIVE CR_pats(_, _, _)
RECURSIVE CR_params(_, _, _)
RECURSIVE CR_declarators(_, _, _)

\* the end of ClosureReplacer::visit_mut_expr, after the children: e, or its
\* placeholder when e is a Name of used_ids
CR_replace(e, used_ids, private_ctxt) ==
    LET index == ClosureReplacer_index(used_ids, e)
    IN IF IsSome(index)
       THEN EIdent(Ident(ActionArg(Unwrap(index) - 1), private_ctxt))
       ELSE e

\* ClosureReplacer::visit_mut_expr.  Name::try_from is Ok for an identifier, a
\* member expression and an optional chain only.
CR_expr(e, used_ids, private_ctxt) ==
    CASE e.t = "Ident" -> CR_replace(e, used_ids, private_ctxt)
      [] e.t = "Member" ->
           CR_replace([e EXCEPT !.obj = CR_expr(@, used_ids, private_ctxt),
                                !.prop = IF @.t = "Computed"
                                         THEN [@ EXCEPT !.expr = CR_expr(@, used_ids, private_ctxt)]
                                         ELSE @],
                      used_ids, private_ctxt)
      [] e.t = "OptChain" ->
           CR_replace([e EXCEPT !.obj = CR_expr(@, used_ids, private_ctxt)],
                      used_ids, private_ctxt)
      [] e.t = "Call" ->
           [e EXCEPT !.callee = CR_expr(@, used_ids, private_ctxt),
                     !.args = CR_exprs(@, used_ids, private_ctxt)]
      [] e.t = "Paren" -> [e EXCEPT !.expr = CR_expr(@, used_ids, private_ctxt)]
      [] e.t = "Await" -> [e EXCEPT !.arg = CR_expr(@, used_ids, private_ctxt)]
      [] e.t = "Bin" ->
           [e EXCEPT !.left = CR_expr(@, used_ids, private_ctxt),
                     !.right = CR_expr(@, used_ids, private_ctxt)]
      [] e.t = "Array" -> [e EXCEPT !.elems = CR_exprs(@, used_ids, private_ctxt)]
      [] e.t = "Object" -> [e EXCEPT !.props = CR_props(@, used_ids, private_ctxt)]
      [] e.t = "Assign" ->
           [e EXCEPT !.target =
                         IF @.t = "TMember"
                         THEN TMember([@.member EXCEPT
                                         !.obj = CR_expr(@, used_ids, private_ctxt)])
                         ELSE @,
                     !.right = CR_expr(@, used_ids, private_ctxt)]
      [] e.t = "Fn" -> [e EXCEPT !.function = CR_function(@, used_ids, private_ctxt)]
      [] e.t = "Arrow" ->
           [e EXCEPT !.params = CR_pats(@, used_ids, private_ctxt),
                     !.arrowBody =
                         IF @.t = "BlockStmt"
                         THEN Block(CR_stmts(@.stmts, used_ids, private_ctxt))
                         ELSE BodyExpr(CR_expr(@.expr, used_ids, private_ctxt))]
      [] OTHER -> e

CR_exprs(es, used_ids, private_ctxt) ==
    [i \in 1..Len(es) |-> CR_expr(es[i], used_ids, private_ctxt)]

\* ClosureReplacer::visit_mut_prop_or_spread, over the properties of an object
CR_props(ps, used_ids, private_ctxt) ==
    [i \in 1..Len(ps) |->
        LET n == ps[i]
        IN CASE n.t = "Shorthand" ->
                  LET index == Position(used_ids, NameFromIdent(n.id))
                  IN IF IsSome(index)
                     THEN PKeyValue(n.id.sym,
                                    EIdent(Ident(ActionArg(Unwrap(index) - 1), private_ctxt)))
                     ELSE n
             [] n.t = "KeyValue" -> [n EXCEPT !.value = CR_with("Expr", @, used_ids, private_ctxt)]
             [] n.t = "Method" -> [n EXCEPT !.function = CR_function(@, used_ids, private_ctxt)]
             [] OTHER -> n]

CR_function(f, used_ids, private_ctxt) ==
    [f EXCEPT !.params = CR_params(@, used_ids, private_ctxt),
              !.body = IF IsSome(@)
                       THEN Some(Block(CR_stmts(Unwrap(@).stmts, used_ids, private_ctxt)))
                       ELSE None]

CR_stmts(ss, used_ids, private_ctxt) ==
    [i \in 1..Len(ss) |-> CR_stmt(ss[i], used_ids, private_ctxt)]

CR_stmt(st, used_ids, private_ctxt) ==
    CASE st.t = "ExprStmt" -> [st EXCEPT !.expr = CR_with("Expr", @, used_ids, private_ctxt)]
      [] st.t = "Return" ->
            [st EXCEPT !.arg = IF IsSome(@) THEN Some(CR_with("Expr", Unwrap(@), used_ids, private_ctxt))
                               ELSE None]
      [] st.t = "Decl" ->
            [st EXCEPT !.decl =
                CASE @.t = "Var" ->
                       [@ EXCEPT !.decls = CR_declarators(@, used_ids, private_ctxt)]
                  [] @.t = "FnDecl" ->
                       [@ EXCEPT !.function = CR_function(@, used_ids, private_ctxt)]
                  [] OTHER -> @]
      [] OTHER -> st

CR_declarators(ds, used_ids, private_ctxt) ==
    [i \in 1..Len(ds) |->
        [ds[i] EXCEPT !.name = CR_pat(@, used_ids, private_ctxt),
                      !.init = IF IsSome(@)
                               THEN Some(CR_with("Expr", Unwrap(@), used_ids, private_ctxt))
                               ELSE None]]

CR_pat(pat, used_ids, private_ctxt) ==
    CASE pat.t = "PatArray" -> [pat EXCEPT !.elems = CR_pats(@, used_ids, private_ctxt)]
      [] pat.t = "PatAssign" ->
            [pat EXCEPT !.left = CR_pat(@, used_ids, private_ctxt),
                        !.right = CR_with("Expr", @, used_ids, private_ctxt)]
      [] pat.t = "PatRest" -> [pat EXCEPT !.arg = CR_pat(@, used_ids, private_ctxt)]
      [] pat.t = "PatObject" ->
            [pat EXCEPT !.props =
                [i \in 1..Len(@) |->
                    IF @[i].t = "OPKeyValue"
                    THEN [@[i] EXCEPT !.value = CR_pat(@, used_ids, private_ctxt)]
                    ELSE @[i]]]
      [] OTHER -> pat

CR_pats(ps, used_ids, private_ctxt) ==
    [i \in 1..Len(ps) |-> CR_pat(ps[i], used_ids, private_ctxt)]

CR_params(ps, used_ids, private_ctxt) ==
    [i \in 1..Len(ps) |-> [ps[i] EXCEPT !.pat = CR_pat(@, used_ids, private_ctxt)]]

\* node.visit_mut_with(&mut ClosureReplacer { used_ids, private_ctxt })
CR_with(type, n, used_ids, private_ctxt) ==
    CASE type = "Expr" -> CR_expr(n, used_ids, private_ctxt)
      [] type = "Stmts" -> CR_stmts(n, used_ids, private_ctxt)

(***************************************************************************)
(* Builders shared by the four hoisting variants.                          *)
(***************************************************************************)
ClosureBound == "$$ACTION_CLOSURE_BOUND"

\* the expression registerServerReference(ident, action_id, null), wrapped in
\* .bind(null, encryptActionBoundArgs(action_id, [bound..])) when bound is not empty
annotate_ident_as_server_reference(ident, bound, action_id) ==
    LET proxy_expr == ECall(EIdent(QuoteIdent("registerServerReference")),
                            <<EIdent(ident), ESym(action_id), ENull>>)
    IN IF bound = <<>> THEN proxy_expr
       ELSE ECall(EMember(proxy_expr, "bind"),
                  <<ENull,
                    ECall(EIdent(QuoteIdent("encryptActionBoundArgs")),
                          <<ESym(action_id), EArray(bound)>>)>>)

\* ids_from_closure.iter().cloned().map(|id| Some(id.as_arg())).collect()
BoundArgs(ids_from_closure) ==
    [i \in 1..Len(ids_from_closure) |-> NameToExpr(ids_from_closure[i])]

\* the destructuring with an id of its own
decryption_decl_stale(n, action_id, pat_ctxt) ==
    SDecl(DVar(<<VarDeclarator(
        PatArray([i \in 1..n |-> PatIdent(Ident(ActionArg(i - 1), pat_ctxt))]),
        Some(EAwait(ECall(EIdent(QuoteIdent("decryptActionBoundArgs")),
                          <<ESym(action_id \o "#"), EIdent(QuoteIdent(ClosureBound))>>))))>>))

\* var [$$ACTION_ARG_0, ..] = await decryptActionBoundArgs(action_id, $$ACTION_CLOSURE_BOUND)
\* pat_ctxt is the SyntaxContext of the placeholders: the action variants build
\* them with Ident::new(.., self.private_ctxt), the cache variants with
\* IdentName::new(..).into(), whose context is empty.
decryption_decl(n, action_id, pat_ctxt) ==
    SDecl(DVar(<<VarDeclarator(
        PatArray([i \in 1..n |-> PatIdent(Ident(ActionArg(i - 1), pat_ctxt))]),
        Some(EAwait(ECall(EIdent(QuoteIdent("decryptActionBoundArgs")),
                          <<ESym(action_id), EIdent(QuoteIdent(ClosureBound))>>))))>>))

ClosureBoundParam == Param(PatIdent(QuoteIdent(ClosureBound)))

\* wrap_cache_expr: $$cache__("name", "id", expr)
wrap_cache_expr(expr, name, id) ==
    ECall(EIdent(QuoteIdent("$$cache__")), <<EStr(name), ESym(id), expr>>)

\* one entry of the record of hoists: what was hoisted, from what
HoistEntry(variant, name, ids_from_closure, params, is_async, ctxt, action_id) ==
    [variant |-> variant, name |-> name, ids_from_closure |-> ids_from_closure,
     params |-> params, is_async |-> is_async, ctxt |-> ctxt, action_id |-> action_id]

\* new_body of the arrow variants, then the body of the hoisted function
ArrowNewBody(body, ids_from_closure, decl) ==
    LET new_body == IF ids_from_closure = <<>> THEN body
                    ELSE IF body.t = "BlockStmt" THEN Block(<<decl>> \o body.stmts)
                    ELSE Block(<<decl, SReturn(body.expr)>>)
    IN IF new_body.t = "BlockStmt" THEN new_body ELSE Block(<<SReturn(new_body.expr)>>)

\* new_body of the function variants
FunctionNewBody(body, ids_from_closure, decl) ==
    IF ids_from_closure = <<>> THEN body
    ELSE IF IsSome(body) THEN Some(Block(<<decl>> \o Unwrap(body).stmts))
    ELSE Some(Block(<<decl>>))

ArrowParams(params) == [i \in 1..Len(params) |-> Param(params[i])]

(***************************************************************************)
(* maybe_hoist_and_create_proxy_for_server_action_arrow_expr               *)
(***************************************************************************)
HoistActionArrow(s, ids_from_closure, arrow, arrow1) ==
    LET action_name == gen_action_ident(s.reference_index)
        action_ident == Ident(action_name, s.private_ctxt)
        action_id == generate_action_id(s.config.hash_salt, s.file_name, action_name)
        register_action_expr ==
            annotate_ident_as_server_reference(action_ident, BoundArgs(ids_from_closure), action_id)
        decl == decryption_decl(Len(ids_from_closure),
                    generate_action_id(s.config.hash_salt, s.file_name, action_name),
                    s.private_ctxt)
        new_params == (IF ids_from_closure # <<>> THEN <<ClosureBoundParam>> ELSE <<>>)
                      \o ArrowParams(arrow.params)
        item == MExportDecl(DFn(action_ident,
                    Function(new_params,
                             Some(ArrowNewBody(arrow1.arrowBody, ids_from_closure, decl)),
                             TRUE, EmptyCtxt)))
    IN [expr |-> register_action_expr,
        node |-> arrow1,
        s |-> [s EXCEPT !.reference_index = @ + 1,
                        !.has_action = TRUE,
                        !.export_actions = Append(@, action_name),
                        !.extra_items = Append(@, item),
                        !.log = Append(@, HoistEntry("action_arrow", action_name,
                                    ids_from_closure, ArrowParams(arrow.params), arrow.is_async,
                                    arrow.ctxt, action_id))]]

maybe_hoist_and_create_proxy_for_server_action_arrow_expr(s, ids_from_closure, arrow) ==
    HoistActionArrow(s, ids_from_closure, arrow,
                     IF arrow.arrowBody.t = "BlockStmt"
                     THEN [arrow EXCEPT !.arrowBody =
                              Block(CR_with("Stmts", @.stmts, ids_from_closure, s.private_ctxt))]
                     ELSE arrow)

(***************************************************************************)
(* maybe_hoist_and_create_proxy_for_server_action_function                 *)
(***************************************************************************)
HoistActionFunction(s, ids_from_closure, function, body1) ==
    LET action_name == gen_action_ident(s.reference_index)
        action_ident == Ident(action_name, s.private_ctxt)
        action_id == generate_action_id(s.config.hash_salt, s.file_name, action_name)
        register_action_expr ==
            annotate_ident_as_server_reference(action_ident, BoundArgs(ids_from_closure), action_id)
        decl == decryption_decl(Len(ids_from_closure),
                    generate_action_id(s.config.hash_salt, s.file_name, action_name),
                    s.private_ctxt)
        new_params == (IF ids_from_closure # <<>> THEN <<ClosureBoundParam>> ELSE <<>>)
                      \o function.params
        \* Function { params: new_params, body: new_body, ..*function.take() }
        item == MExportDecl(DFn(action_ident,
                    [function EXCEPT !.params = new_params,
                                     !.body = FunctionNewBody(body1, ids_from_closure, decl)]))
    IN [expr |-> register_action_expr,
        node |-> DummyFunction,
        s |-> [s EXCEPT !.reference_index = @ + 1,
                        !.has_action = TRUE,
                        !.export_actions = Append(@, action_name),
                        !.extra_items = Append(@, item),
                        !.log = Append(@, HoistEntry("action_function", action_name,
                                    ids_from_closure, function.params, function.is_async,
                                    function.ctxt, action_id))]]

\* the body of a function after ClosureReplacer
ReplacedBody(s, ids_from_closure, function) ==
    IF IsSome(function.body)
    THEN Some(Block(CR_with("Stmts", Unwrap(function.body).stmts, ids_from_closure,
                            s.private_ctxt)))
    ELSE None

maybe_hoist_and_create_proxy_for_server_action_function(s, ids_from_closure, function) ==
    HoistActionFunction(s, ids_from_closure, function,
                        ReplacedBody(s, ids_from_closure, function))

(***************************************************************************)
(* maybe_hoist_and_create_proxy_for_cache_arrow_expr                       *)
(***************************************************************************)
HoistCacheArrow(s, ids_from_closure, cache_type, arrow, body1) ==
    LET cache_name == gen_cache_ident(s.reference_index)
        \* private_ident!(cache_name): a context made from a new mark
        cache_ident == Ident(cache_name, s.next_mark)
        reference_id == generate_action_id(s.config.hash_salt, s.file_name, cache_name)
        register_action_expr ==
            annotate_ident_as_server_reference(cache_ident, BoundArgs(ids_from_closure),
                                               reference_id)
        decl == decryption_decl(Len(ids_from_closure),
                    generate_action_id(s.config.hash_salt, s.file_name, cache_name),
                    EmptyCtxt)
        new_params == (IF ids_from_closure # <<>> THEN <<ClosureBoundParam>> ELSE <<>>)
                      \o ArrowParams(arrow.params)
        item == MExportDecl(DVar(<<VarDeclarator(PatIdent(cache_ident),
                    Some(wrap_cache_expr(
                        EFn(None, Function(new_params,
                                           Some(ArrowNewBody(body1, ids_from_closure, decl)),
                                           TRUE, EmptyCtxt)),
                        cache_type, reference_id)))>>))
    IN [expr |-> register_action_expr,
        \* new_body = *arrow.body.take()
        node |-> [arrow EXCEPT !.arrowBody = BodyExpr(InvalidExpr)],
        s |-> [s EXCEPT !.reference_index = @ + 1,
                        !.next_mark = @ + 1,
                        !.has_cache = TRUE,
                        !.has_action = TRUE,
                        !.export_actions = Append(@, cache_name),
                        !.hoisted_extra_items = Append(@, item),
                        !.log = Append(@, HoistEntry("cache_arrow", cache_name,
                                    ids_from_closure, ArrowParams(arrow.params), arrow.is_async,
                                    arrow.ctxt, reference_id))]]

maybe_hoist_and_create_proxy_for_cache_arrow_expr(s, ids_from_closure, cache_type, arrow) ==
    HoistCacheArrow(s, ids_from_closure, cache_type, arrow,
                    IF arrow.arrowBody.t = "BlockStmt"
                    THEN Block(CR_with("Stmts", arrow.arrowBody.stmts, ids_from_closure,
                                       s.private_ctxt))
                    ELSE arrow.arrowBody)

(***************************************************************************)
(* maybe_hoist_and_create_proxy_for_cache_function                         *)
(***************************************************************************)
HoistCacheFunction(s, ids_from_closure, fn_name, cache_type, function, body1) ==
    LET cache_name == gen_cache_ident(s.reference_index)
        cache_ident == Ident(cache_name, s.next_mark)
        reference_id == generate_action_id(s.config.hash_salt, s.file_name, cache_name)
        register_action_expr ==
            annotate_ident_as_server_reference(cache_ident, BoundArgs(ids_from_closure),
                                               reference_id)
        decl == decryption_decl(Len(ids_from_closure),
                    generate_action_id(s.config.hash_salt, s.file_name, cache_name),
                    EmptyCtxt)
        new_params == (IF ids_from_closure # <<>> THEN <<ClosureBoundParam>> ELSE <<>>)
                      \o function.params
        item == MExportDecl(DVar(<<VarDeclarator(PatIdent(cache_ident),
                    Some(wrap_cache_expr(
                        EFn(fn_name,
                            [function EXCEPT !.params = new_params,
                                             !.body = FunctionNewBody(body1, ids_from_closure,
                                                                      decl)]),
                        cache_type, reference_id)))>>))
    IN [expr |-> register_action_expr,
        node |-> DummyFunction,
        s |-> [s EXCEPT !.reference_index = @ + 1,
                        !.next_mark = @ + 1,
                        !.has_cache = TRUE,
                        !.has_action = TRUE,
                        !.export_actions = Append(@, cache_name),
                        !.hoisted_extra_items = Append(@, item),
                        !.log = Append(@, HoistEntry("cache_function", cache_name,
                                    ids_from_closure, function.params, function.is_async,
                                    function.ctxt, reference_id))]]

maybe_hoist_and_create_proxy_for_cache_function(s, ids_from_closure, fn_name, cache_type, function) ==
    HoistCacheFunction(s, ids_from_closure, fn_name, cache_type, function,
                       ReplacedBody(s, ids_from_closure, function))

(***************************************************************************)
(* impl VisitMut for ServerActions.  Every operator takes a node and the   *)
(* struct and returns [n |-> the node after the visit, s |-> the struct].  *)
(* Nodes whose visit method is not overridden are walked by the default    *)
(* visitor, children in field order.                                       *)
(***************************************************************************)
RECURSIVE visit_mut_with(_, _, _)
RECURSIVE visit_mut_expr(_, _)
RECURSIVE ExprChildren(_, _)
RECURSIVE visit_mut_exprs(_, _)
RECURSIVE visit_mut_callee(_, _)
RECURSIVE visit_mut_props(_, _)
RECURSIVE visit_mut_prop_or_spread(_, _)
RECURSIVE visit_mut_method_prop(_, _)
RECURSIVE visit_mut_function(_, _)
RECURSIVE visit_mut_fn_expr(_, _)
RECURSIVE visit_mut_fn_decl(_, _)
RECURSIVE visit_mut_arrow_expr(_, _)
RECURSIVE visit_mut_decl(_, _)
RECURSIVE visit_mut_var_declarator(_, _)
RECURSIVE visit_mut_var_declarators(_, _)
RECURSIVE visit_mut_stmt(_, _)
RECURSIVE StmtsLoop(_, _, _)
RECURSIVE visit_mut_pat(_, _)
RECURSIVE visit_mut_pats(_, _)
RECURSIVE visit_mut_param(_, _)
RECURSIVE visit_mut_params(_, _)

\* a visited child put back into a field of its parent; two children visited
\* one after the other; the head and the tail of a visited Vec
WithChild(c, n, field) == [c EXCEPT !.n = [n EXCEPT ![field] = c.n]]
WithChildren(a, b, n, fa, fb) ==
    [a EXCEPT !.s = b.s, !.n = [n EXCEPT ![fa] = a.n, ![fb] = b.n]]
Cons(h, t) == [h EXCEPT !.s = t.s, !.n = <<h.n>> \o t.n]

\* obj[expr] and the assignment to a member, with their visited children
MemberComputedWith(o, c, n) ==
    [o EXCEPT !.s = c.s, !.n = [n EXCEPT !.obj = o.n, !.prop = [@ EXCEPT !.expr = c.n]]]
AssignMemberWith(o, r, n) ==
    [o EXCEPT !.s = r.s,
              !.n = [n EXCEPT !.target = TMember([n.target.member EXCEPT !.obj = o.n]),
                              !.right = r.n]]

\* the children of an expression, by the default visitor
ExprChildren(n, s) ==
    CASE n.t = "Member" ->
           IF n.prop.t = "Computed"
           THEN LET Prop(o) ==
                      MemberComputedWith(o, visit_mut_expr(n.prop.expr, o.s), n)
                IN Prop(visit_mut_expr(n.obj, s))
           ELSE WithChild(visit_mut_expr(n.obj, s), n, "obj")
      [] n.t = "OptChain" -> WithChild(visit_mut_expr(n.obj, s), n, "obj")
      [] n.t = "Call" ->
           LET Args(c) == WithChildren(c, visit_mut_exprs(n.args, c.s), n, "callee", "args")
           IN Args(visit_mut_callee(n.callee, s))
      [] n.t = "Paren" -> WithChild(visit_mut_expr(n.expr, s), n, "expr")
      [] n.t = "Await" -> WithChild(visit_mut_expr(n.arg, s), n, "arg")
      [] n.t = "Bin" ->
           LET Right(l) ==
                 WithChildren(l, visit_mut_expr(n.right, l.s), n, "left", "right")
           IN Right(visit_mut_expr(n.left, s))
      [] n.t = "Array" -> WithChild(visit_mut_exprs(n.elems, s), n, "elems")
      [] n.t = "Object" -> WithChild(visit_mut_props(n.props, s), n, "props")
      [] n.t = "Assign" ->
           \* left: AssignTarget.  A BindingIdent has no Expr child; of a
           \* MemberExpr target the object is visited as an Expr.
           IF n.target.t = "TMember"
           THEN LET Right(o) == AssignMemberWith(o, visit_mut_expr(n.right, o.s), n)
                IN Right(visit_mut_expr(n.target.member.obj, s))
           ELSE WithChild(visit_mut_expr(n.right, s), n, "right")
      [] n.t = "Fn" -> visit_mut_fn_expr(n, s)
      [] n.t = "Arrow" -> visit_mut_arrow_expr(n, s)
      [] OTHER -> [n |-> n, s |-> s]

\* the name pushed for an expression that is a Name
TrackedName(name, in_callee) ==
    IF in_callee /\ name.parts # <<>>
    THEN [name EXCEPT !.parts = SubSeq(@, 1, Len(@) - 1)]
    ELSE name

\* the tail of visit_mut_expr: the expression becomes the proxy a hoist left
TakeProxyExpr(c) ==
    [c EXCEPT !.n = IF c.s.rewrite_expr_to_proxy_expr = None THEN @
                    ELSE c.s.rewrite_expr_to_proxy_expr[1],
              !.s.rewrite_expr_to_proxy_expr = None]

\* the tail of visit_mut_expr: tracking is switched on again after a
\* tracked name, and an untracked expression may have become a proxy
ExprTail(c, tracked) ==
    IF tracked THEN [c EXCEPT !.s.should_track_names = TRUE] ELSE TakeProxyExpr(c)

\* the scope flags as the visit of a node finds them
Observed(s) ==
    [within |-> s.within, in_export_decl |-> s.in_export_decl,
     in_default_export_decl |-> s.in_default_export_decl,
     in_module_level |-> s.in_module_level]

visit_mut_expr(n, s) ==
    LET tracked == ~s.in_module_level /\ s.should_track_names /\ NameTryFrom(n) # None
        s0 == [s EXCEPT !.seen = @ \cup {Observed(s)}]
    IN ExprTail(ExprChildren(n, IF tracked
                                THEN [s0 EXCEPT !.names = Append(@, TrackedName(
                                                              NameTryFrom(n)[1], s.in_callee)),
                                                !.should_track_names = FALSE]
                                ELSE [s0 EXCEPT !.rewrite_expr_to_proxy_expr = None]),
                tracked)

visit_mut_exprs(es, s) ==
    IF es = <<>> THEN [n |-> <<>>, s |-> s]
    ELSE LET Rest(h) == Cons(h, visit_mut_exprs(Tail(es), h.s))
         IN Rest(visit_mut_expr(Head(es), s))

visit_mut_callee(n, s) ==
    [visit_mut_expr(n, [s EXCEPT !.in_callee = TRUE]) EXCEPT !.s.in_callee = s.in_callee]

\* the tail of visit_mut_method_prop and visit_mut_class_method
MethodWith(c, n, s) ==
    [c EXCEPT !.n = [n EXCEPT !.function = c.n],
              !.s.in_export_decl = s.in_export_decl,
              !.s.in_default_export_decl = s.in_default_export_decl,
              !.s.within = s.within]

visit_mut_method_prop(n, s) ==
    MethodWith(visit_mut_function(n.function, [s EXCEPT !.in_export_decl = FALSE,
                                                        !.in_default_export_decl = FALSE,
                                                        !.within = "method"]),
               n, s)

\* the children of a PropOrSpread, by the default visitor
PropChildren(n, s) ==
    CASE n.t = "KeyValue" -> WithChild(visit_mut_expr(n.value, s), n, "value")
      [] n.t = "Method" -> visit_mut_method_prop(n, s)
      [] OTHER -> [n |-> n, s |-> s]

visit_mut_prop_or_spread(n, s) ==
    IF ~s.in_module_level /\ s.should_track_names /\ n.t = "Shorthand"
    THEN [PropChildren(n, [s EXCEPT !.names = Append(@, NameFromIdent(n.id)),
                                    !.should_track_names = FALSE])
            EXCEPT !.s.should_track_names = TRUE]
    ELSE PropChildren(n, s)

visit_mut_props(ps, s) ==
    IF ps = <<>> THEN [n |-> <<>>, s |-> s]
    ELSE LET Rest(h) == Cons(h, visit_mut_props(Tail(ps), h.s))
         IN Rest(visit_mut_prop_or_spread(Head(ps), s))

\* patterns are walked by the default visitor
visit_mut_pat(pat, s) ==
    CASE pat.t = "PatArray" -> WithChild(visit_mut_pats(pat.elems, s), pat, "elems")
      [] pat.t = "PatAssign" ->
           LET Right(l) ==
                 WithChildren(l, visit_mut_with("Expr", pat.right, l.s), pat, "left", "right")
           IN Right(visit_mut_pat(pat.left, s))
      [] pat.t = "PatRest" -> WithChild(visit_mut_pat(pat.arg, s), pat, "arg")
      [] OTHER -> [n |-> pat, s |-> s]

visit_mut_pats(ps, s) ==
    IF ps = <<>> THEN [n |-> <<>>, s |-> s]
    ELSE LET Rest(h) == Cons(h, visit_mut_pats(Tail(ps), h.s))
         IN Rest(visit_mut_pat(Head(ps), s))

\* the tail of visit_mut_param
ParamWith(c, n) ==
    [c EXCEPT !.n = [n EXCEPT !.pat = c.n],
              !.s.declared_idents = IF c.s.in_module_level THEN @
                                    ELSE collect_idents_in_pat(c.n, @)]

visit_mut_param(n, s) == ParamWith(visit_mut_pat(n.pat, s), n)

visit_mut_params(ps, s) ==
    IF ps = <<>> THEN [n |-> <<>>, s |-> s]
    ELSE LET Rest(h) == Cons(h, visit_mut_params(Tail(ps), h.s))
         IN Rest(visit_mut_param(Head(ps), s))

\* visit_mut_stmts: the loop `for mut stmt in stmts.take()`, which pushes
\* the statement and the drained self.annotations to `new`; after the last
\* statement the annotations taken before the loop are put back
PushStmt(c, rest) == [c EXCEPT !.s = rest.s, !.n = <<c.n>> \o c.s.annotations \o rest.n]

StmtsLoop(ss, s, old_annotations) ==
    IF ss = <<>> THEN [n |-> <<>>, s |-> [s EXCEPT !.annotations = old_annotations]]
    ELSE LET Rest(c) ==
               PushStmt(c, StmtsLoop(Tail(ss), [c.s EXCEPT !.annotations = <<>>],
                                     old_annotations))
         IN Rest(visit_mut_stmt(Head(ss), s))

visit_mut_stmts(ss, s) == StmtsLoop(ss, [s EXCEPT !.annotations = <<>>], s.annotations)

\* Function is walked by the default visitor: params, then the body
FunctionWith(p, b, f) ==
    [p EXCEPT !.s = b.s, !.n = [f EXCEPT !.params = p.n, !.body = Some(Block(b.n))]]

visit_mut_function(f, s) ==
    IF f.body = None THEN WithChild(visit_mut_params(f.params, s), f, "params")
    ELSE LET Body(p) == FunctionWith(p, visit_mut_with("Stmts", f.body[1].stmts, p.s), f)
         IN Body(visit_mut_params(f.params, s))

\* VarDeclarator is walked by the default visitor: name, then init
DeclaratorWith(name, init, d) ==
    [name EXCEPT !.s = init.s, !.n = [d EXCEPT !.name = name.n, !.init = Some(init.n)]]

visit_mut_var_declarator(d, s) ==
    IF d.init = None THEN WithChild(visit_mut_pat(d.name, s), d, "name")
    ELSE LET Initializer(name) ==
               DeclaratorWith(name, visit_mut_with("Expr", d.init[1], name.s), d)
         IN Initializer(visit_mut_pat(d.name, s))

visit_mut_var_declarators(ds, s) ==
    IF ds = <<>> THEN [n |-> <<>>, s |-> s]
    ELSE LET Rest(h) == Cons(h, visit_mut_var_declarators(Tail(ds), h.s))
         IN Rest(visit_mut_var_declarator(Head(ds), s))

\* the tail of visit_mut_decl: the declaration becomes the proxy
\* declaration a hoist left
TakeProxyDecl(c, d) ==
    [c EXCEPT !.n = IF c.s.rewrite_fn_decl_to_proxy_decl # None
                    THEN c.s.rewrite_fn_decl_to_proxy_decl[1]
                    ELSE IF d.t = "Var" THEN [d EXCEPT !.decls = c.n] ELSE c.n,
              !.s.rewrite_fn_decl_to_proxy_decl = None]

visit_mut_decl(d, s) ==
    TakeProxyDecl(
        CASE d.t = "Var" ->
               visit_mut_var_declarators(d.decls,
                                         [s EXCEPT !.rewrite_fn_decl_to_proxy_decl = None])
          [] d.t = "FnDecl" ->
               visit_mut_fn_decl(d, [s EXCEPT !.rewrite_fn_decl_to_proxy_decl = None])
          [] OTHER -> [n |-> d, s |-> [s EXCEPT !.rewrite_fn_decl_to_proxy_decl = None]],
        d)

\* the statement n with its visited child
StmtWith(n, child) ==
    CASE n.t = "ExprStmt" -> [n EXCEPT !.expr = child]
      [] n.t = "Return" /\ n.arg # None -> [n EXCEPT !.arg = Some(child)]
      [] n.t = "Decl" -> [n EXCEPT !.decl = child]
      [] OTHER -> n

\* the tail of visit_mut_stmt: in a closure the identifiers the statement
\* declares are collected
CollectDeclared(c, n) ==
    [c EXCEPT !.n = StmtWith(n, c.n),
              !.s.declared_idents = IF c.s.in_module_level THEN @
                                    ELSE collect_decl_idents_in_stmt(StmtWith(n, c.n), @)]

visit_mut_stmt(n, s) ==
    CollectDeclared(
        CASE n.t = "ExprStmt" -> visit_mut_with("Expr", n.expr, s)
          [] n.t = "Return" /\ n.arg # None -> visit_mut_with("Expr", n.arg[1], s)
          [] n.t = "Decl" -> visit_mut_decl(n.decl, s)
          [] OTHER -> [n |-> n, s |-> s],
        n)

\* Entering a function-like: self.names is taken, and the flags are set for
\* the visit of the children.
EnterFn(s, is_action_fn) ==
    [s EXCEPT !.names = <<>>,
              !.in_module_level = FALSE,
              !.should_track_names = is_action_fn \/ @,
              !.in_export_decl = FALSE,
              !.in_default_export_decl = FALSE,
              !.within = "function"]

\* Leaving it without the names of the children
LeaveFn_forgetful(s, old) ==
    [s EXCEPT !.within = old.within,
              !.in_module_level = old.in_module_level,
              !.should_track_names = old.should_track_names,
              !.in_export_decl = old.in_export_decl,
              !.in_default_export_decl = old.in_default_export_decl,
              !.names = IF old.should_track_names THEN old.names ELSE <<>>]

\* Leaving it with in_module_level as the children had it
LeaveFn_inside(s, old) ==
    [s EXCEPT !.should_track_names = old.should_track_names,
              !.in_export_decl = old.in_export_decl,
              !.in_default_export_decl = old.in_default_export_decl,
              !.within = old.within,
              !.names = IF old.should_track_names THEN old.names \o s.names ELSE <<>>]

\* Leaving it: the old flags are put back and child_names is split from
\* self.names; old is the struct at entry (current_names = old.names).
LeaveFn(s, old) ==
    [s EXCEPT !.within = old.within,
              !.in_module_level = old.in_module_level,
              !.should_track_names = old.should_track_names,
              !.in_export_decl = old.in_export_decl,
              !.in_default_export_decl = old.in_default_export_decl,
              !.names = IF old.should_track_names THEN old.names \o s.names ELSE <<>>]

\* &self.declared_idents[..declared_idents_until]
Declared(s, declared_idents_until) == SubSeq(s.declared_idents, 1, declared_idents_until)

\* a function expression after a hoist h: the proxy expression is left in
\* rewrite_default_fn_expr_to_proxy_expr or in rewrite_expr_to_proxy_expr
FnExprProxy(named, h, names) ==
    [n |-> [named.n EXCEPT !.function = h.node],
     s |-> IF h.s.in_default_export_decl
           THEN [h.s EXCEPT !.rewrite_default_fn_expr_to_proxy_expr = Some(h.expr)]
           ELSE [h.s EXCEPT !.rewrite_expr_to_proxy_expr = Some(h.expr)],
     names |-> names]

\* visit_mut_fn_expr, `if let Some(cache_type_str) = cache_type`; the
\* result carries child_names as the branch leaves it
FnExprCache(f1, s3, cache_type, child_names, declared_idents_until) ==
    LET do_cache == cache_type # None /\ ~(s3.in_cache_file # None /\ s3.in_export_decl)
        named == IF do_cache /\ f1.ident = None
                 THEN [n |-> [f1 EXCEPT !.ident =
                                Some(Ident(gen_cache_ident(s3.reference_index), EmptyCtxt))],
                       s |-> [s3 EXCEPT !.reference_index = @ + 1]]
                 ELSE [n |-> f1, s |-> s3]
        names == retain_names_from_declared_idents(
                     child_names, Declared(named.s, declared_idents_until))
    IN IF do_cache
       THEN FnExprProxy(named,
                        maybe_hoist_and_create_proxy_for_cache_function(
                            named.s, names, named.n.ident, cache_type[1], named.n.function),
                        names)
       ELSE [n |-> f1, s |-> s3, names |-> child_names]

\* visit_mut_fn_expr, `if is_action_fn`, after the cache branch
FnExprAction(after, is_action_fn, declared_idents_until) ==
    LET do_action == is_action_fn /\ ~(after.s.in_action_file /\ after.s.in_export_decl)
        named == IF do_action /\ after.n.ident = None
                 THEN [n |-> [after.n EXCEPT !.ident =
                                Some(Ident(gen_action_ident(after.s.reference_index),
                                           after.s.private_ctxt))],
                       s |-> [after.s EXCEPT !.reference_index = @ + 1]]
                 ELSE [n |-> after.n, s |-> after.s]
        names == retain_names_from_declared_idents(
                     after.names, Declared(named.s, declared_idents_until))
    IN IF do_action
       THEN FnExprProxy(named,
                        maybe_hoist_and_create_proxy_for_server_action_function(
                            named.s, names, named.n.function),
                        names)
       ELSE after

\* visit_mut_fn_expr after the children c were visited
FnExprHoist(f, info, c) ==
    LET declared_idents_until == Len(info.s.declared_idents)
        f1 == [f EXCEPT !.function = c.n]
        left == LeaveFn(c.s, info.s)
        s3 == IF c.n.is_async THEN left ELSE Emit(left, ErrActionsAsync, "function")
        Result(r) == [n |-> r.n, s |-> r.s]
    IN IF ~info.is_action_fn /\ info.cache_type = None
       THEN [c EXCEPT !.n = f1, !.s = left]
       ELSE Result(FnExprAction(FnExprCache(f1, s3, info.cache_type, c.s.names,
                                            declared_idents_until),
                                info.is_action_fn, declared_idents_until))

\* visit_mut_fn_expr after get_body_info
FnExprChildren(f, info) ==
    FnExprHoist(f, info,
                visit_mut_function([f.function EXCEPT !.body = info.body],
                                   EnterFn(info.s, info.is_action_fn)))

visit_mut_fn_expr(f, s) == FnExprChildren(f, get_body_info(s, s.config, f.function.body))

\* var <ident> = <new_expr>, the declaration a hoisted function declaration becomes
ProxyDecl(ident, new_expr) == DVar(<<VarDeclarator(PatIdent(ident), Some(new_expr))>>)

\* a function declaration after a hoist h
FnDeclProxy(f1, h) ==
    [n |-> [f1 EXCEPT !.function = h.node],
     s |-> [h.s EXCEPT !.rewrite_fn_decl_to_proxy_decl = Some(ProxyDecl(f1.ident, h.expr))]]

\* visit_mut_fn_decl after the children c were visited
FnDeclHoist(f, info, c) ==
    LET declared_idents_until == Len(info.s.declared_idents)
        f1 == [f EXCEPT !.function = c.n]
        left == LeaveFn(c.s, info.s)
        s_cache == IF c.n.is_async THEN left ELSE Emit(left, ErrCacheAsync, "ident")
        s_action == IF c.n.is_async THEN left ELSE Emit(left, ErrActionsAsync, "ident")
    IN IF ~info.is_action_fn /\ info.cache_type = None
       THEN [c EXCEPT !.n = f1, !.s = left]
       ELSE IF info.cache_type # None
       THEN FnDeclProxy(f1, maybe_hoist_and_create_proxy_for_cache_function(
                                s_cache, <<>>, Some(f1.ident), info.cache_type[1],
                                f1.function))
       ELSE IF ~(s_action.in_action_file /\ s_action.in_export_decl)
       THEN FnDeclProxy(f1, maybe_hoist_and_create_proxy_for_server_action_function(
                                s_action,
                                retain_names_from_declared_idents(
                                    c.s.names, Declared(s_action, declared_idents_until)),
                                f1.function))
       ELSE [n |-> f1, s |-> s_action]

\* visit_mut_fn_decl after get_body_info
FnDeclChildren(f, info) ==
    FnDeclHoist(f, info,
                visit_mut_function([f.function EXCEPT !.body = info.body],
                                   EnterFn(info.s, info.is_action_fn)))

visit_mut_fn_decl(f, s) == FnDeclChildren(f, get_body_info(s, s.config, f.function.body))

\* the loop over a.params before the children of an arrow are visited
RECURSIVE CollectArrowParams(_, _)
CollectArrowParams(params, idents) ==
    IF params = <<>> THEN idents
    ELSE CollectArrowParams(Tail(params), collect_idents_in_pat(Head(params), idents))

\* an arrow with its visited params and body
ArrowWith(p, b, a) ==
    [p EXCEPT !.s = b.s,
              !.n = [a EXCEPT !.params = p.n,
                              !.arrowBody = IF a.arrowBody.t = "BlockStmt"
                                            THEN Block(b.n) ELSE BodyExpr(b.n)]]

\* an arrow after a hoist h
ArrowProxy(h) == [n |-> h.node, s |-> [h.s EXCEPT !.rewrite_expr_to_proxy_expr = Some(h.expr)]]

\* visit_mut_arrow_expr after the children c were visited
ArrowHoist(info, c) ==
    LET left == LeaveFn(c.s, info.s)
        s3 == IF ~c.n.is_async /\ ~left.in_action_file /\ left.in_cache_file = None
              THEN Emit(left, ErrArrowActionsAsync, "arrow") ELSE left
        names == retain_names_from_declared_idents(
                     c.s.names, Declared(s3, Len(info.s.declared_idents)))
    IN IF ~info.is_action_fn /\ info.cache_type = None
       THEN [c EXCEPT !.s = left]
       ELSE ArrowProxy(IF info.is_action_fn
                       THEN maybe_hoist_and_create_proxy_for_server_action_arrow_expr(
                                s3, names, c.n)
                       ELSE maybe_hoist_and_create_proxy_for_cache_arrow_expr(
                                s3, names, info.cache_type[1], c.n))

\* visit_mut_arrow_expr after get_body_info: params, then the body
ArrowChildren(a, info) ==
    LET Body(p) ==
          ArrowHoist(info,
                     ArrowWith(p,
                               IF a.arrowBody.t = "BlockStmt"
                               THEN visit_mut_with("Stmts", info.body[1].stmts, p.s)
                               ELSE visit_mut_with("Expr", a.arrowBody.expr, p.s),
                               a))
    IN Body(visit_mut_pats(a.params,
                           [EnterFn(info.s, info.is_action_fn) EXCEPT
                               !.declared_idents = CollectArrowParams(a.params, @)]))

visit_mut_arrow_expr(a, s) ==
    ArrowChildren(a, get_body_info(s, s.config,
                                   IF a.arrowBody.t = "BlockStmt" THEN Some(a.arrowBody)
                                   ELSE None))

(***************************************************************************)
(* remove_server_directive_index_in_module: the retain closure over the    *)
(* module items.  acc carries the kept items, the out-parameters, the      *)
(* diagnostics and is_directive.                                           *)
(***************************************************************************)
RECURSIVE ModuleDirectiveLoop(_, _, _)
ModuleDirectiveLoop(items, acc, enabled) ==
    IF items = <<>> THEN acc
    ELSE
      LET item == Head(items)
          keep(a) == [a EXCEPT !.stmts = Append(@, item)]
          err(a, msg, at) == [a EXCEPT !.errors = Append(@, Diag(msg, at))]
          isStr == item.t = "Stmt" /\ item.stmt.t = "ExprStmt" /\ item.stmt.expr.t = "Str"
          isParenStr == /\ item.t = "Stmt" /\ item.stmt.t = "ExprStmt"
                        /\ item.stmt.expr.t = "Paren" /\ item.stmt.expr.expr.t = "Str"
          next ==
            IF isStr
            THEN LET value == item.stmt.expr.value
                 IN IF value = UseServer
                    THEN IF acc.is_directive
                         THEN LET a1 == [acc EXCEPT !.in_action_file = TRUE, !.has_action = TRUE]
                              IN IF ~enabled THEN err(a1, ErrDisabled, "literal") ELSE a1
                         ELSE keep(err(acc, ErrServerTopOfFile, "literal"))
                    ELSE IF value = UseCache \/ StartsWith(value, UseCachePrefix)
                    THEN IF acc.is_directive
                         THEN [acc EXCEPT !.in_cache_file =
                                   Some(IF value = UseCache THEN DefaultKind
                                        ELSE SubSeq(value, Len(UseCachePrefix) + 1, Len(value))),
                                          !.has_cache = TRUE]
                         ELSE keep(err(acc, ErrCacheTopOfFile, "literal"))
                    ELSE IF detect_similar_strings(value, UseCache)
                         THEN keep(err(acc, ErrDidYouMeanCache, "literal"))
                         ELSE keep(acc)
            ELSE IF isParenStr
            THEN LET value == item.stmt.expr.expr.value
                 IN IF value = UseServer \/ detect_similar_strings(value, UseServer)
                    THEN IF acc.is_directive THEN keep(err(acc, ErrServerParen, "statement"))
                         ELSE keep(err(acc, ErrServerTopParen, "statement"))
                    ELSE IF value = UseCache \/ detect_similar_strings(value, UseCache)
                    THEN IF acc.is_directive THEN keep(err(acc, ErrCacheParen, "statement"))
                         ELSE keep(err(acc, ErrCacheTopParen, "statement"))
                    ELSE keep(acc)
            ELSE keep([acc EXCEPT !.is_directive = FALSE])
      IN ModuleDirectiveLoop(Tail(items), next, enabled)

\* the scan with a diagnostic that stops the rewrite
remove_server_directive_index_in_module_stopped(items, s) ==
    LET r == ModuleDirectiveLoop(items,
                 [stmts |-> <<>>, in_action_file |-> s.in_action_file,
                  in_cache_file |-> s.in_cache_file, has_action |-> s.has_action,
                  has_cache |-> s.has_cache, errors |-> <<>>, is_directive |-> TRUE],
                 s.config.enabled)
    IN IF r.errors # <<>> THEN [n |-> items, s |-> [s EXCEPT !.handler = @ \o r.errors]]
       ELSE [n |-> r.stmts, s |-> [s EXCEPT !.in_action_file = r.in_action_file,
                                            !.in_cache_file = r.in_cache_file,
                                            !.has_action = r.has_action,
                                            !.has_cache = r.has_cache]]

remove_server_directive_index_in_module(items, s) ==
    LET r == ModuleDirectiveLoop(items,
                 [stmts |-> <<>>, in_action_file |-> s.in_action_file,
                  in_cache_file |-> s.in_cache_file, has_action |-> s.has_action,
                  has_cache |-> s.has_cache, errors |-> <<>>, is_directive |-> TRUE],
                 s.config.enabled)
    IN [n |-> r.stmts, s |-> [s EXCEPT !.in_action_file = r.in_action_file,
                            !.in_cache_file = r.in_cache_file,
                            !.has_action = r.has_action,
                            !.has_cache = r.has_cache,
                            !.handler = @ \o r.errors]]

(***************************************************************************)
(* attach_name_to_expr: `var <ident>;` is queued and the expression        *)
(* becomes (<ident> = <expr>)                                              *)
(***************************************************************************)
attach_name_to_expr(ident, expr, extra_items) ==
    [expr |-> IF expr.t = "Paren" THEN expr ELSE EParen(EAssign(TIdent(ident), expr)),
     extra_items |-> Append(extra_items,
                            MStmt(SDecl(DVar(<<VarDeclarator(PatIdent(ident), None)>>))))]

(***************************************************************************)
(* visit_mut_module_items, the check of the exports of a server boundary   *)
(* file that precedes the visit of a module item.                          *)
(***************************************************************************)
IsLit(e) == e.t \in {"Str", "StrSym", "Num", "Null"}

\* the exported names recorded for the specifiers of `export { .. }`
RECURSIVE NamedSpecifiers(_, _)
NamedSpecifiers(specifiers, acc) ==
    IF specifiers = <<>> THEN acc
    ELSE LET spec == Head(specifiers)
         IN NamedSpecifiers(Tail(specifiers),
                IF spec.t = "Named"
                THEN [acc EXCEPT !.idents =
                          Append(@, [ident |-> spec.orig,
                                     name |-> IF IsSome(spec.exported) THEN Unwrap(spec.exported)
                                              ELSE spec.orig.sym])]
                ELSE [acc EXCEPT !.disallowed = TRUE])

ExportedOfIdents(idents) == [i \in 1..Len(idents) |-> [ident |-> idents[i], name |-> idents[i].sym]]

\* a fresh identifier for an anonymous default export
DefaultIdent(s) == Ident(gen_action_ident(s.reference_index), s.private_ctxt)

\* no check of the exports
CheckExport_none(stmt, s) == [n |-> stmt, s |-> s]

CheckExport(stmt, s) ==
    LET disallow(r) == [n |-> r.n, s |-> Emit(r.s, ErrExport, "export")]
        record(st, ident, name) ==
            [st EXCEPT !.exported_idents = Append(@, [ident |-> ident, name |-> name])]
    IN CASE stmt.t = "ExportDecl" ->
              (CASE stmt.decl.t = "FnDecl" ->
                      [n |-> stmt, s |-> record(s, stmt.decl.ident, stmt.decl.ident.sym)]
                 [] stmt.decl.t = "Var" ->
                      LET s1 == [s EXCEPT !.exported_idents = @ \o ExportedOfIdents(
                                     collect_idents_in_var_decls(stmt.decl.decls, <<>>))]
                      IN IF \E i \in 1..Len(stmt.decl.decls) :
                                /\ IsSome(stmt.decl.decls[i].init)
                                /\ IsLit(Unwrap(stmt.decl.decls[i].init))
                         THEN disallow([n |-> stmt, s |-> s1]) ELSE [n |-> stmt, s |-> s1]
                 [] OTHER -> disallow([n |-> stmt, s |-> s]))
         [] stmt.t = "ExportNamed" ->
              IF IsSome(stmt.src) THEN disallow([n |-> stmt, s |-> s])
              ELSE LET r == NamedSpecifiers(stmt.specifiers,
                                            [idents |-> <<>>, disallowed |-> FALSE])
                       s1 == [s EXCEPT !.exported_idents = @ \o r.idents]
                   IN IF r.disallowed THEN disallow([n |-> stmt, s |-> s1]) ELSE [n |-> stmt, s |-> s1]
         [] stmt.t = "ExportDefaultDecl" ->
              IF stmt.decl.t = "Fn"
              THEN IF IsSome(stmt.decl.ident)
                   THEN [n |-> stmt, s |-> record(s, Unwrap(stmt.decl.ident), "default")]
                   ELSE [n |-> [stmt EXCEPT !.decl.ident = Some(DefaultIdent(s))], s |-> [record(s, DefaultIdent(s), "default") EXCEPT !.reference_index = @ + 1]]
              ELSE disallow([n |-> stmt, s |-> s])
         [] stmt.t = "ExportDefaultExpr" ->
              (CASE stmt.expr.t = "Fn" -> [n |-> stmt, s |-> s]
                 [] stmt.expr.t = "Arrow" /\ ~stmt.expr.is_async -> disallow([n |-> stmt, s |-> s])
                 [] stmt.expr.t = "Ident" -> [n |-> stmt, s |-> record(s, stmt.expr.id, "default")]
                 [] stmt.expr.t \in {"Arrow", "Call"} ->
                      LET att == attach_name_to_expr(DefaultIdent(s), stmt.expr, s.extra_items)
                      IN [n |-> [stmt EXCEPT !.expr = att.expr], s |-> [record(s, DefaultIdent(s), "default") EXCEPT
                                !.reference_index = @ + 1,
                                !.extra_items = att.extra_items]]
                 [] OTHER -> disallow([n |-> stmt, s |-> s]))
         [] stmt.t = "ExportAll" -> disallow([n |-> stmt, s |-> s])
         [] OTHER -> [n |-> stmt, s |-> s]

(***************************************************************************)
(* The visit of one module item: visit_mut_export_decl,                    *)
(* visit_mut_export_default_decl, visit_mut_export_default_expr, and the   *)
(* default visitor for the others.                                         *)
(***************************************************************************)
\* the tail of visit_mut_export_decl
ExportDeclWith(c, decl, s) ==
    [n |-> [decl EXCEPT !.decl = c.n], s |-> [c.s EXCEPT !.in_export_decl = s.in_export_decl]]

visit_mut_export_decl(decl, s) ==
    ExportDeclWith(visit_mut_with("Decl", decl.decl, [s EXCEPT !.in_export_decl = TRUE]),
                   decl, s)

\* the tail of visit_mut_export_default_decl and visit_mut_export_default_expr
ExportDefaultWith(c, item, field, s) ==
    [n |-> [item EXCEPT ![field] = c.n],
     s |-> [c.s EXCEPT !.in_export_decl = s.in_export_decl,
                       !.in_default_export_decl = s.in_default_export_decl]]

visit_mut_export_default_decl(decl, s) ==
    LET s0 == [s EXCEPT !.in_export_decl = TRUE,
                        !.in_default_export_decl = TRUE,
                        !.rewrite_default_fn_expr_to_proxy_expr = None]
    IN ExportDefaultWith(IF decl.decl.t = "Fn" THEN visit_mut_with("FnExpr", decl.decl, s0)
                         ELSE [n |-> decl.decl, s |-> s0],
                         decl, "decl", s)

visit_mut_export_default_expr(expr, s) ==
    ExportDefaultWith(visit_mut_with("Expr", expr.expr,
                                     [s EXCEPT !.in_export_decl = TRUE,
                                               !.in_default_export_decl = TRUE]),
                      expr, "expr", s)

visit_mut_module_item(stmt, s) ==
    CASE stmt.t = "ExportDecl" -> visit_mut_export_decl(stmt, s)
      [] stmt.t = "ExportDefaultDecl" -> visit_mut_export_default_decl(stmt, s)
      [] stmt.t = "ExportDefaultExpr" -> visit_mut_export_default_expr(stmt, s)
      [] stmt.t = "Stmt" -> WithChild(visit_mut_with("Stmt", stmt.stmt, s), stmt, "stmt")
      [] OTHER -> [n |-> stmt, s |-> s]

\* node.visit_mut_with(self): the visit method of the node's type
visit_mut_with(type, n, s) ==
    CASE type = "Expr" -> visit_mut_expr(n, s)
      [] type = "Stmts" -> visit_mut_stmts(n, s)
      [] type = "Stmt" -> visit_mut_stmt(n, s)
      [] type = "Decl" -> visit_mut_decl(n, s)
      [] type = "FnExpr" -> visit_mut_fn_expr(n, s)
      [] type = "ModuleItem" -> visit_mut_module_item(n, s)

(***************************************************************************)
(* visit_mut_module_items: one iteration of the loop over the module       *)
(* items.  Returns the items the iteration appends to `new` and the struct.*)
(***************************************************************************)
\* the visited item alone, without the hoisted definitions
EmitItem_alone(new_stmt, s) ==
    <<new_stmt>> \o [i \in 1..Len(s.annotations) |-> MStmt(s.annotations[i])]

\* the items pushed to `new` for one visited item
\* the queues emitted in front of the item
EmitItem_before(new_stmt, s) == s.hoisted_extra_items \o s.extra_items \o s.annotations \o <<new_stmt>>
EmitItem(new_stmt, s) ==
    s.hoisted_extra_items \o <<new_stmt>>
        \o [i \in 1..Len(s.annotations) |-> MStmt(s.annotations[i])]
        \o s.extra_items

\* the iteration after the item was visited
ItemVisited(visited) ==
    LET s1 == visited.s
        new_stmt == IF IsSome(s1.rewrite_default_fn_expr_to_proxy_expr)
                    THEN MExportDefaultExpr(Unwrap(s1.rewrite_default_fn_expr_to_proxy_expr))
                    ELSE visited.n
        s2 == [s1 EXCEPT !.rewrite_default_fn_expr_to_proxy_expr = None]
        emitted == s2.config.is_react_server_layer \/ ~s2.in_action_file
    IN [visited EXCEPT !.n = IF emitted THEN EmitItem(new_stmt, s2) ELSE <<>>,
                       !.s = IF emitted THEN [s2 EXCEPT !.hoisted_extra_items = <<>>,
                                                        !.annotations = <<>>,
                                                        !.extra_items = <<>>]
                             ELSE s2]

ModuleItemsIteration(stmt0, s0) ==
    LET Visit(checked) == ItemVisited(visit_mut_with("ModuleItem", checked.n, checked.s))
    IN Visit(IF s0.in_action_file \/ IsSome(s0.in_cache_file)
             THEN CheckExport(stmt0, s0) ELSE [n |-> stmt0, s |-> s0])

(***************************************************************************)
(* visit_mut_module_items, after the loop.                                 *)
(***************************************************************************)
NamedImport(src, locals) ==
    MImport([i \in 1..Len(locals) |-> ImportSpec(locals[i], None)], src)

\* createServerReference(action_id, callServer, undefined, findSourceMapURL, export_name)
CreateReferenceCall(create_ref_ident, call_server_ident, find_source_map_url_ident, action_id, export_name) ==
    ECall(EIdent(create_ref_ident),
          <<ESym(action_id), EIdent(call_server_ident), EUndefined,
            EIdent(find_source_map_url_ident), ESym(export_name)>>)

\* the export generated on the client layer, always as a named export
ClientExport_named(s, e, create_ref_ident, call_server_ident, find_source_map_url_ident) ==
    MExportDecl(DVar(<<VarDeclarator(PatIdent(Ident(e.name, EmptyCtxt)),
        Some(CreateReferenceCall(create_ref_ident, call_server_ident, find_source_map_url_ident,
                 generate_action_id(s.config.hash_salt, s.file_name, e.name), e.name)))>>))

\* the export generated on the client layer for one recorded export
ClientExport(s, e, create_ref_ident, call_server_ident, find_source_map_url_ident) ==
    LET action_id == generate_action_id(s.config.hash_salt, s.file_name, e.name)
        call == CreateReferenceCall(create_ref_ident, call_server_ident,
                                    find_source_map_url_ident, action_id, e.name)
    IN IF e.name = "default" THEN MExportDefaultExpr(call)
       ELSE MExportDecl(DVar(<<VarDeclarator(PatIdent(Ident(e.name, EmptyCtxt)), Some(call))>>))

\* the annotation pushed on the server layer for one recorded export
ServerAnnotation(s, e) ==
    SExpr(annotate_ident_as_server_reference(
              e.ident, <<>>, generate_action_id(s.config.hash_salt, s.file_name, e.name)))

\* the items of an action file with the annotations left out
ActionFileItems_bare(new0, s) == [n |-> new0, s |-> [s EXCEPT !.extra_items = <<>>, !.annotations = <<>>]]

\* if self.in_action_file { .. }
ActionFileItems(new0, s) ==
    LET create_ref_ident == Ident("createServerReference", s.next_mark)
        call_server_ident == Ident("callServer", s.next_mark + 1)
        find_source_map_url_ident == Ident("findSourceMapURL", s.next_mark + 2)
        s1 == [s EXCEPT !.next_mark = @ + 3]
        exported == s.exported_idents
    IN IF ~s.config.is_react_server_layer
       THEN LET imp == NamedImport("private-next-rsc-action-client-wrapper",
                                   <<create_ref_ident, call_server_ident,
                                     find_source_map_url_ident>>)
                new1 == RotateRight(Append(new0, imp), 1)
            IN [n |-> new1 \o [i \in 1..Len(exported) |->
                             ClientExport(s, exported[i], create_ref_ident, call_server_ident,
                                          find_source_map_url_ident)], s |-> [s1 EXCEPT !.pure_comments = @ + Len(exported)]]
       ELSE LET annotations == s.annotations
                                 \o [i \in 1..Len(exported) |-> ServerAnnotation(s, exported[i])]
                ensure_ident == Ident("ensureServerEntryExports", s1.next_mark)
                ensure == MStmt(SExpr(ECall(EIdent(ensure_ident),
                              <<EArray([i \in 1..Len(exported) |-> EIdent(exported[i].ident)])>>)))
            IN [n |-> new0 \o s.extra_items
                      \o <<NamedImport("private-next-rsc-action-validate", <<ensure_ident>>),
                           ensure>>
                      \o [i \in 1..Len(annotations) |-> MStmt(annotations[i])], s |-> [s1 EXCEPT !.next_mark = @ + 1, !.extra_items = <<>>, !.annotations = <<>>]]

\* the ActionsMap (a BTreeMap from id to name) collected from the names
ActionsMap(s, actions) ==
    LET ids == {generate_action_id(s.config.hash_salt, s.file_name, actions[i]) :
                    i \in 1..Len(actions)}
    IN [id \in ids |->
          LET last == CHOOSE i \in 1..Len(actions) :
                          /\ generate_action_id(s.config.hash_salt, s.file_name, actions[i]) = id
                          /\ \A j \in (i + 1)..Len(actions) :
                                generate_action_id(s.config.hash_salt, s.file_name, actions[j]) # id
          IN actions[last]]

\* generate_server_actions_comment
generate_server_actions_comment(actions) ==
    [prefix |-> " __next_internal_action_entry_do_not_use__ ", json |-> actions, suffix |-> " "]

\* the leading comment without the exports of an action file
LeadingComment_hoists(s) ==
    [pos |-> s.start_pos, kind |-> "Block",
     text |-> generate_server_actions_comment(ActionsMap(s, s.export_actions))]

\* the leading comment added when has_action holds
LeadingComment(s) ==
    LET actions == s.export_actions
                     \o (IF s.in_action_file
                         THEN [i \in 1..Len(s.exported_idents) |-> s.exported_idents[i].name]
                         ELSE <<>>)
    IN [pos |-> s.start_pos, kind |-> "Block",
        text |-> generate_server_actions_comment(ActionsMap(s, actions))]

CacheImport ==
    MImport(<<ImportSpec(QuoteIdent("$$cache__"), Some("cache"))>>,
            "private-next-rsc-cache-wrapper")
ServerReferenceImport ==
    NamedImport("private-next-rsc-server-reference", <<QuoteIdent("registerServerReference")>>)
EncryptionImport ==
    NamedImport("private-next-rsc-action-encryption",
                <<QuoteIdent("encryptActionBoundArgs"), QuoteIdent("decryptActionBoundArgs")>>)

\* the imports pushed and left at the end of the module
AfterLoop_appended(new0, s0) ==
    LET a == IF s0.in_action_file THEN ActionFileItems(new0, s0) ELSE [n |-> new0, s |-> s0]
        s == a.s
        new1 == IF s.has_cache THEN Append(a.n, CacheImport) ELSE a.n
        new2 == IF (s.has_action \/ s.has_cache) /\ s.config.is_react_server_layer
                THEN new1 \o <<ServerReferenceImport, EncryptionImport>>
                ELSE new1
    IN [n |-> new2, s |-> s,
        leading |-> IF s.has_action THEN <<LeadingComment(s)>> ELSE <<>>]

\* everything after the loop: [n |-> new, s |-> self] and the comments added
AfterLoop(new0, s0) ==
    LET a == IF s0.in_action_file THEN ActionFileItems(new0, s0) ELSE [n |-> new0, s |-> s0]
        s == a.s
        new1 == IF s.has_cache THEN RotateRight(Append(a.n, CacheImport), 1) ELSE a.n
        new2 == IF (s.has_action \/ s.has_cache) /\ s.config.is_react_server_layer
                THEN RotateRight(new1 \o <<ServerReferenceImport, EncryptionImport>>, 2)
                ELSE new1
    IN [n |-> new2, s |-> s,
        leading |-> IF s.has_action THEN <<LeadingComment(s)>> ELSE <<>>]

(***************************************************************************)
(* The modules the pass is run on.  They are resolved: every binding       *)
(* carries the context of the scope that declares it.                      *)
(*   module scope : g, h, act, outer, wrap                                 *)
(*   outer(x)     : scope 2, declares x (parameter), y, w (after the inner *)
(*                  function)                                              *)
(*   mid(m)       : scope 5, declares m, k                                 *)
(*   the function-like under study: scope 3, declares a (parameter), z     *)
(*   a function nested in it: scope 4, declares b                          *)
(***************************************************************************)
OuterScope == 2
InnerScope == 3
NestedScope == 4
MidScope == 5

id_g == Ident("g", TopLevelCtxt)
id_x == Ident("x", OuterScope)
id_y == Ident("y", OuterScope)
id_w == Ident("w", OuterScope)
id_m == Ident("m", MidScope)
id_k == Ident("k", MidScope)
id_a == Ident("a", InnerScope)
id_z == Ident("z", InnerScope)
id_b == Ident("b", NestedScope)

Const(ident, init) == SDecl(DVar(<<VarDeclarator(PatIdent(ident), Some(init))>>))
Directive(value) == SExpr(EStr(value))
UseCacheKind == UseCachePrefix \o <<"x">>

\* statement lists of the function-like under study
BodyReturnX == <<SReturn(EIdent(id_x))>>
BodyAssign == <<SExpr(EAssign(TIdent(id_x), EIdent(id_a))), SReturn(EIdent(id_x))>>
BodyPrefix == <<SReturn(EBin(EMember(EMember(EIdent(id_x), "p"), "q"), EMember(EIdent(id_x), "p")))>>
BodyCallee == <<SReturn(ECall(EMember(EIdent(id_y), "run"), <<EIdent(id_a)>>))>>
BodyShorthand == <<Const(id_z, EIdent(id_g)), SReturn(EObject(<<PShorthand(id_x), PShorthand(id_z)>>))>>
BodyOptional == <<SReturn(EBin(EOptChain(EIdent(id_y), "p", TRUE), EMember(EIdent(id_y), "p")))>>
BodyNested ==
    <<SReturn(EArrow(<<PatIdent(id_b)>>, BodyExpr(EBin(EIdent(id_x), EIdent(id_b))), FALSE, NestedScope))>>
BodyModule == <<SReturn(EBin(EIdent(id_g), EIdent(id_a)))>>
BodyLate == <<SReturn(EBin(EIdent(id_w), EIdent(id_y)))>>
BodyComputed == <<SReturn(EComputed(EIdent(id_x), EIdent(id_y)))>>
BodyMemberTarget == <<SExpr(EAssign(TMember(EMember(EIdent(id_x), "p")), EIdent(id_y)))>>
BodyTwo == <<SReturn(EBin(EIdent(id_y), EIdent(id_x)))>>

CaptureBodies ==
    {BodyReturnX, BodyAssign, BodyPrefix, BodyCallee, BodyShorthand, BodyOptional,
     BodyNested, BodyModule, BodyLate, BodyComputed, BodyMemberTarget, BodyTwo}

InlineDirectives ==
    {<<Directive(UseServer)>>, <<Directive(UseCache)>>, <<Directive(UseCacheKind)>>,
     <<Directive(UseServer), Directive(UseCache)>>}

\* the function-like under study, as a Function and as an arrow
InnerFunction(directives, body, is_async) ==
    Function(<<Param(PatIdent(id_a))>>, Some(Block(directives \o body)), is_async, InnerScope)
InnerArrow(directives, body, is_async) ==
    EArrow(<<PatIdent(id_a)>>, Block(directives \o body), is_async, InnerScope)

\* the statements that place a function-like of the given kind, named `name`
\* where it has a name, in a statement list
Place(kind, directives, body, is_async, name) ==
    CASE kind = "fn_decl" ->
           <<SDecl(DFn(name, InnerFunction(directives, body, is_async))),
             SReturn(EIdent(name))>>
      [] kind = "fn_expr" ->
           <<SReturn(EFn(None, InnerFunction(directives, body, is_async)))>>
      [] kind = "arrow" ->
           <<Const(name, InnerArrow(directives, body, is_async)), SReturn(EIdent(name))>>

Kinds == {"fn_decl", "fn_expr", "arrow"}

\* function outer(x) { const y = g; <stmts>; var w = g }
OuterItem(ss) ==
    MStmt(SDecl(DFn(Ident("outer", TopLevelCtxt),
        Function(<<Param(PatIdent(id_x))>>,
                 Some(Block(<<Const(id_y, EIdent(id_g))>> \o ss \o <<Const(id_w, EIdent(id_g))>>)),
                 FALSE, OuterScope))))

\* function outer(x) { <stmts> }
OuterPlain(ss) ==
    MStmt(SDecl(DFn(Ident("outer", TopLevelCtxt),
        Function(<<Param(PatIdent(id_x))>>, Some(Block(ss)), FALSE, OuterScope))))

\* async function mid(m, k) { <directives>; <stmts> }, or the arrow, returned
MidStmts(kind, directives, ss) ==
    IF kind = "fn_decl"
    THEN <<SDecl(DFn(Ident("mid", OuterScope),
                     Function(<<Param(PatIdent(id_m)), Param(PatIdent(id_k))>>,
                              Some(Block(directives \o ss)), TRUE, MidScope)))>>
    ELSE <<SReturn(EArrow(<<PatIdent(id_m), PatIdent(id_k)>>, Block(directives \o ss),
                          TRUE, MidScope))>>

BodyInMid == <<SReturn(EBin(EBin(EIdent(id_x), EIdent(id_m)), EIdent(id_k)))>>

act2 == Ident("act", OuterScope)
act5 == Ident("act", MidScope)
act1 == Ident("act", TopLevelCtxt)
h1 == Ident("h", TopLevelCtxt)

\* inline function-likes in a function that is not an action
InlineItems ==
    {OuterItem(Place(kind, d, body, TRUE, act2)) :
        kind \in Kinds, d \in InlineDirectives, body \in CaptureBodies}
    \cup {OuterItem(Place(kind, d, BodyReturnX, FALSE, act2)) :
             kind \in Kinds, d \in InlineDirectives \cup {<<>>}}
    \cup {OuterItem(Place(kind, <<>>, BodyReturnX, TRUE, act2)) : kind \in Kinds}

\* a function-like nested in a function that may itself be an action
NestedItems ==
    {OuterPlain(MidStmts(midKind, md, Place(kind, d, BodyInMid, TRUE, act5))) :
        midKind \in {"fn_decl", "arrow"},
        md \in {<<>>, <<Directive(UseServer)>>, <<Directive(UseCache)>>},
        kind \in Kinds,
        d \in {<<Directive(UseServer)>>, <<Directive(UseCache)>>}}

\* function-likes at module level, not exported
TopLevelItems ==
    {MStmt(Place(kind, d, BodyModule, TRUE, act1)[1]) :
        kind \in {"fn_decl", "arrow"}, d \in {<<Directive(UseServer)>>, <<Directive(UseCache)>>}}

\* exported function-likes
ExportedItems ==
    UNION {
      {MExportDecl(DFn(act1, InnerFunction(d, BodyModule, is_async))),
       MExportDecl(DVar(<<VarDeclarator(PatIdent(h1),
                                        Some(InnerArrow(d, BodyModule, is_async)))>>)),
       MExportDecl(DVar(<<VarDeclarator(PatIdent(h1),
           Some(EArrow(<<PatIdent(id_a)>>, BodyExpr(EBin(EIdent(id_g), EIdent(id_a))), is_async,
                       InnerScope)))>>)),
       MExportDecl(DVar(<<VarDeclarator(PatIdent(h1),
                                        Some(EFn(None, InnerFunction(d, BodyModule, is_async))))>>)),
       MExportDefaultDecl(EFn(Some(act1), InnerFunction(d, BodyModule, is_async))),
       MExportDefaultDecl(EFn(None, InnerFunction(d, BodyModule, is_async))),
       MExportDefaultExpr(InnerArrow(d, BodyModule, is_async)),
       MExportDefaultExpr(ECall(EIdent(Ident("wrap", TopLevelCtxt)),
                                <<EFn(None, InnerFunction(d, BodyModule, is_async))>>))} :
      d \in {<<>>, <<Directive(UseServer)>>, <<Directive(UseCache)>>}, is_async \in BOOLEAN}

\* other exports and statements
OtherItems ==
    {MExportNamed(<<[t |-> "Named", orig |-> id_g, exported |-> None],
                    [t |-> "Named", orig |-> h1, exported |-> Some("renamed")]>>, None),
     MExportNamed(<<[t |-> "Named", orig |-> id_g, exported |-> None]>>, Some("./other")),
     MExportAll,
     MExportDecl(DClass(Ident("C", TopLevelCtxt))),
     MExportDefaultDecl(DClass(Ident("C", TopLevelCtxt))),
     MExportDecl(DVar(<<VarDeclarator(PatIdent(h1), Some(ENum))>>)),
     MExportDefaultExpr(EIdent(id_g)),
     MExportDefaultExpr(ENum),
     MStmt(Const(id_g, ENum))}

\* string-literal statements around the directives: another directive
\* prologue entry, typos, parenthesised and misplaced directives
UseStrict == <<"u", "s", "e", " ", "s", "t", "r", "i", "c", "t">>
UseServers == UseServer \o <<"s">>
UseCahce == <<"u", "s", "e", " ", "c", "a", "h", "c", "e">>
ParenDirective(value) == SExpr(EParen(EStr(value)))
Plain == SExpr(EIdent(id_g))

Prologues ==
    {<<Directive(UseStrict), Directive(UseServer)>>,
     <<Directive(UseStrict), Directive(UseCache)>>,
     <<Directive(UseServers)>>,
     <<Directive(UseCahce)>>,
     <<ParenDirective(UseServer)>>,
     <<ParenDirective(UseCache)>>,
     <<ParenDirective(UseServer), Directive(UseServer)>>,
     <<ParenDirective(UseCache), Directive(UseCache)>>,
     <<Plain, Directive(UseServer)>>,
     <<Plain, Directive(UseCache)>>,
     <<Plain, Directive(UseCacheKind)>>,
     <<Plain, ParenDirective(UseServer)>>,
     <<Directive(UseServer), Plain, Directive(UseServer)>>,
     <<Directive(UseCache), Plain, Directive(UseServer)>>}

\* const o = { m() { <directives>; return g } }
MethodItem(directives) ==
    MStmt(Const(Ident("o", TopLevelCtxt),
                EObject(<<PMethod("m", Function(<<>>,
                                               Some(Block(directives \o <<SReturn(EIdent(id_g))>>)),
                                               TRUE, InnerScope))>>)))

\* function-likes whose body opens with one of the prologues, and object
\* methods whose body opens with a directive
DirectiveItems ==
    {OuterItem(Place(kind, p, BodyReturnX, TRUE, act2)) : kind \in Kinds, p \in Prologues}
    \cup {MethodItem(d) : d \in {<<Directive(UseServer)>>, <<Directive(UseCache)>>}}

Items ==
    InlineItems \cup NestedItems \cup TopLevelItems \cup ExportedItems \cup OtherItems
    \cup DirectiveItems

\* the items that may follow the first one; the scope of each is its own
f2 == Ident("f2", TopLevelCtxt)
p2 == Ident("p", 6)
q2 == Ident("q", 7)
r2 == Ident("r", 8)
Followers ==
    {MExportDecl(DFn(f2, Function(<<Param(PatIdent(p2))>>,
                                  Some(Block(<<SReturn(EIdent(p2))>>)), TRUE, 6))),
     MStmt(Const(Ident("h2", TopLevelCtxt),
                 EArrow(<<PatIdent(q2)>>,
                        Block(<<Directive(UseServer), SReturn(EIdent(q2))>>), TRUE, 7))),
     MStmt(Const(Ident("h3", TopLevelCtxt),
                 EArrow(<<PatIdent(r2)>>,
                        Block(<<Directive(UseCache), SReturn(EIdent(r2))>>), TRUE, 8))),
     MStmt(SExpr(EIdent(id_g)))}

\* a function of the module is written once, so no follower occurs twice
RECURSIVE FollowerSeqs(_)
FollowerSeqs(n) ==
    IF n = 0 THEN {<<>>}
    ELSE LET shorter == FollowerSeqs(n - 1)
         IN shorter
            \cup UNION {{Append(fs, f) : f \in Followers \ Range(fs)} : fs \in shorter}

\* the leading statements of the module
ModuleDirectives == {<<>>, <<Directive(UseServer)>>, <<Directive(UseCache)>>}

ModuleBodies ==
    {[i \in 1..Len(d) |-> MStmt(d[i])] \o first \o rest :
        d \in ModuleDirectives,
        first \in {<<>>} \cup {<<item>> : item \in Items},
        rest \in FollowerSeqs(MaxItems - 1)}
    \cup {[i \in 1..Len(d) |-> MStmt(d[i])] \o rest :
             d \in Prologues, rest \in FollowerSeqs(MaxItems - 1)}

Configs ==
    {[is_react_server_layer |-> TRUE, enabled |-> TRUE, hash_salt |-> ""],
     [is_react_server_layer |-> FALSE, enabled |-> TRUE, hash_salt |-> ""],
     [is_react_server_layer |-> TRUE, enabled |-> FALSE, hash_salt |-> ""],
     [is_react_server_layer |-> TRUE, enabled |-> TRUE, hash_salt |-> "salt"]}

FileName == "/a.js"
ModuleLo == 1

(***************************************************************************)
(* The pass as a state machine.                                            *)
(***************************************************************************)
\* server_actions(file_name, config, comments): the struct after construction
server_actions(file_name, cfg) ==
    [config |-> cfg,
     file_name |-> file_name,
     start_pos |-> 0,
     in_action_file |-> FALSE,
     in_cache_file |-> None,
     in_export_decl |-> FALSE,
     in_default_export_decl |-> FALSE,
     in_callee |-> FALSE,
     has_action |-> FALSE,
     has_cache |-> FALSE,
     reference_index |-> 0,
     in_module_level |-> TRUE,
     should_track_names |-> FALSE,
     names |-> <<>>,
     declared_idents |-> <<>>,
     exported_idents |-> <<>>,
     rewrite_fn_decl_to_proxy_decl |-> None,
     rewrite_default_fn_expr_to_proxy_expr |-> None,
     rewrite_expr_to_proxy_expr |-> None,
     annotations |-> <<>>,
     extra_items |-> <<>>,
     hoisted_extra_items |-> <<>>,
     export_actions |-> <<>>,
     private_ctxt |-> FirstMark,
     next_mark |-> FirstMark + 1,
     \* the diagnostics emitted through HANDLER, the pure comments added, and
     \* the record of the hoists made
     handler |-> <<>>,
     pure_comments |-> 0,
     log |-> <<>>,
     \* the innermost function-like being visited, and the scope flags each
     \* visit_mut_expr found on entry
     within |-> "module",
     seen |-> {}]

Init ==
    /\ pc = "start"
    /\ \E cfg \in Configs : self = server_actions(FileName, cfg)
    /\ \E body \in ModuleBodies : input = [lo |-> ModuleLo, body |-> body]
    /\ stmts = input.body
    /\ new = <<>>
    /\ comments = <<>>
    /\ fnIn = <<>>
    /\ fnOut = <<>>

\* visit_mut_module and the head of visit_mut_module_items: the directives of
\* the module are scanned and removed
EnterModule ==
    /\ pc = "start"
    /\ LET Scanned(r) == /\ stmts' = r.n
                          /\ self' = [r.s EXCEPT !.annotations = <<>>]
       IN Scanned(remove_server_directive_index_in_module(
                      stmts, [self EXCEPT !.start_pos = input.lo]))
    /\ pc' = "items"
    /\ UNCHANGED <<new, comments, input, fnIn, fnOut>>

\* one iteration of `for mut stmt in stmts.take()`
VisitItem ==
    /\ pc = "items"
    /\ stmts # <<>>
    /\ LET Iterated(r) == /\ new' = new \o r.n
                          /\ self' = r.s
       IN Iterated(ModuleItemsIteration(Head(stmts), self))
    /\ stmts' = Tail(stmts)
    /\ UNCHANGED <<pc, comments, input, fnIn, fnOut>>

\* the rest of visit_mut_module_items
Finish ==
    /\ pc = "items"
    /\ stmts = <<>>
    /\ LET Finished(r) == /\ new' = r.n
                          /\ self' = r.s
                          /\ comments' = comments \o r.leading
       IN Finished(AfterLoop(new, self))
    /\ pc' = "done"
    /\ UNCHANGED <<stmts, input, fnIn, fnOut>>

Next == EnterModule \/ VisitItem \/ Finish

Spec == Init /\ [][Next]_vars

(***************************************************************************)
(* detect_similar_strings applied to every pair of short strings           *)
(***************************************************************************)
MaxLen == 4
Letters == {"s", "e"}

RECURSIVE Strings(_)
Strings(n) ==
    IF n = 0 THEN {<<>>}
    ELSE LET shorter == Strings(n - 1)
         IN shorter \cup {Append(w, l) : w \in shorter, l \in Letters}

SimilarInit ==
    /\ pc = "similar"
    /\ \E a \in Strings(MaxLen), b \in Strings(MaxLen) : fnIn = <<a, b>>
    /\ fnOut = <<>>
    /\ self = server_actions(FileName, CHOOSE cfg \in Configs : cfg.hash_salt = "salt")
    /\ input = [lo |-> ModuleLo, body |-> <<>>]
    /\ stmts = <<>>
    /\ new = <<>>
    /\ comments = <<>>

ApplySimilar ==
    /\ pc = "similar"
    /\ fnOut' = <<detect_similar_strings(fnIn[1], fnIn[2])>>
    /\ pc' = "similar_done"
    /\ UNCHANGED <<stmts, new, self, comments, input, fnIn>>

SpecSimilar == SimilarInit /\ [][ApplySimilar]_vars

\* the string without its i-th character
RemoveAt(w, i) == SubSeq(w, 1, i - 1) \o SubSeq(w, i + 1, Len(w))
Longer(a, b) == IF Len(a) < Len(b) THEN b ELSE a
Shorter(a, b) == IF Len(a) < Len(b) THEN a ELSE b
DiffCount(a, b) == Cardinality({i \in 1..Len(a) : a[i] # b[i]})
RemovalPositions(a, b) ==
    {i \in 1..Len(Longer(a, b)) : RemoveAt(Longer(a, b), i) = Shorter(a, b)}

\* C17 as stated: similar iff the lengths differ by at most one and either the
\* strings of equal length differ in one or two positions, or exactly one
\* position of the longer string can be removed to give the shorter one.
C17_Original ==
    pc = "similar_done" =>
        fnOut[1] = IF Len(fnIn[1]) = Len(fnIn[2])
                   THEN DiffCount(fnIn[1], fnIn[2]) \in {1, 2}
                   ELSE /\ Len(Longer(fnIn[1], fnIn[2])) - Len(Shorter(fnIn[1], fnIn[2])) = 1
                        /\ Cardinality(RemovalPositions(fnIn[1], fnIn[2])) = 1

\* C17 amended: similar iff the lengths differ by at most one and either the
\* strings of equal length differ in one or two positions, or some position
\* of the longer string can be removed to give the shorter one (the position
\* need not be unique); the result is false for equal strings and does not
\* depend on the order of the arguments.
C17_Similar ==
    pc = "similar_done" =>
        /\ fnOut[1] = IF Len(fnIn[1]) = Len(fnIn[2])
                      THEN DiffCount(fnIn[1], fnIn[2]) \in {1, 2}
                      ELSE /\ Len(Longer(fnIn[1], fnIn[2])) - Len(Shorter(fnIn[1], fnIn[2])) = 1
                           /\ RemovalPositions(fnIn[1], fnIn[2]) # {}
        /\ fnIn[1] = fnIn[2] => fnOut[1] = FALSE
        /\ fnOut[1] = detect_similar_strings(fnIn[2], fnIn[1])

\* a doubled letter: two positions of the longer string give the shorter one
C17_Witness ==
    /\ pc = "similar_done"
    /\ fnOut[1] = TRUE
    /\ Cardinality(RemovalPositions(fnIn[1], fnIn[2])) = 2
    /\ Len(fnIn[1]) = Len(fnIn[2]) + 1

(***************************************************************************)
(* Observations on a module: the function-like bodies in it and the        *)
(* statements at directive position.                                       *)
(***************************************************************************)
IsDirectiveText(v) == v = UseServer \/ v = UseCache \/ StartsWith(v, UseCachePrefix)
IsStrStmt(st) == st.t = "ExprStmt" /\ st.expr.t = "Str"
IsDirectiveStmt(st) == IsStrStmt(st) /\ IsDirectiveText(st.expr.value)
IsParenDirectiveStmt(st) ==
    /\ st.t = "ExprStmt"
    /\ st.expr.t = "Paren"
    /\ st.expr.expr.t = "Str"
    /\ IsDirectiveText(st.expr.expr.value)

\* the i-th statement is in the leading run of string-literal statements
AtDirectivePosition(ss, i) == \A j \in 1..i : IsStrStmt(ss[j])
HasLeadingDirective(ss) ==
    \E i \in 1..Len(ss) : AtDirectivePosition(ss, i) /\ IsDirectiveText(ss[i].expr.value)

\* what is collected from a module: the bodies and the parameter lists of its
\* function-likes, its call expressions and the identifiers it refers to
Part(kind, ss, is_async, call, params) ==
    [kind |-> kind, stmts |-> ss, is_async |-> is_async, call |-> call, params |-> params]
FnBody(kind, ss, is_async) == Part(kind, ss, is_async, ECall(ENull, <<>>), <<>>)
CallPart(e) == Part("call", <<>>, FALSE, e, <<>>)
IdentPart(i) == Part("ident", <<>>, FALSE, EIdent(i), <<>>)
ParamsPart(params) == Part("params", <<>>, FALSE, ECall(ENull, <<>>), params)

RECURSIVE BodiesOfExpr(_), BodiesOfProp(_), BodiesOfPat(_), BodiesOfStmt(_)
RECURSIVE BodiesOfFunction(_, _)
BodiesOfExprs(es) == UNION {BodiesOfExpr(es[i]) : i \in 1..Len(es)}
BodiesOfStmts(ss) == UNION {BodiesOfStmt(ss[i]) : i \in 1..Len(ss)}
BodiesOfPats(ps) == UNION {BodiesOfPat(ps[i]) : i \in 1..Len(ps)}

BodiesOfPat(pat) ==
    CASE pat.t = "PatArray" -> BodiesOfPats(pat.elems)
      [] pat.t = "PatAssign" -> BodiesOfPat(pat.left) \cup BodiesOfExpr(pat.right)
      [] pat.t = "PatRest" -> BodiesOfPat(pat.arg)
      [] pat.t = "Param" -> BodiesOfPat(pat.pat)
      [] OTHER -> {}

BodiesOfFunction(f, kind) ==
    {ParamsPart(f.params)} \cup BodiesOfPats(f.params)
    \cup (IF f.body = None THEN {}
          ELSE {FnBody(kind, f.body[1].stmts, f.is_async)} \cup BodiesOfStmts(f.body[1].stmts))

BodiesOfProp(pr) ==
    CASE pr.t = "KeyValue" -> BodiesOfExpr(pr.value)
      [] pr.t = "Shorthand" -> {IdentPart(pr.id)}
      [] pr.t = "Method" -> BodiesOfFunction(pr.function, "method")
      [] OTHER -> {}

BodiesOfExpr(e) ==
    CASE e.t = "Ident" -> {IdentPart(e.id)}
      [] e.t = "Member" ->
           BodiesOfExpr(e.obj)
           \cup (IF e.prop.t = "Computed" THEN BodiesOfExpr(e.prop.expr) ELSE {})
      [] e.t = "OptChain" -> BodiesOfExpr(e.obj)
      [] e.t = "Call" -> {CallPart(e)} \cup BodiesOfExpr(e.callee) \cup BodiesOfExprs(e.args)
      [] e.t = "Paren" -> BodiesOfExpr(e.expr)
      [] e.t = "Await" -> BodiesOfExpr(e.arg)
      [] e.t = "Bin" -> BodiesOfExpr(e.left) \cup BodiesOfExpr(e.right)
      [] e.t = "Array" -> BodiesOfExprs(e.elems)
      [] e.t = "Object" -> UNION {BodiesOfProp(e.props[i]) : i \in 1..Len(e.props)}
      [] e.t = "Assign" ->
           BodiesOfExpr(e.right)
           \cup (IF e.target.t = "TMember" THEN BodiesOfExpr(e.target.member)
                 ELSE {IdentPart(e.target.id)})
      [] e.t = "Fn" -> BodiesOfFunction(e.function, "function")
      [] e.t = "Arrow" ->
           {ParamsPart(ArrowParams(e.params))} \cup BodiesOfPats(e.params)
           \cup (IF e.arrowBody.t = "BlockStmt"
                 THEN {FnBody("arrow", e.arrowBody.stmts, e.is_async)}
                      \cup BodiesOfStmts(e.arrowBody.stmts)
                 ELSE BodiesOfExpr(e.arrowBody.expr))
      [] OTHER -> {}

BodiesOfDecl(d) ==
    CASE d.t = "Var" ->
           UNION {BodiesOfPat(d.decls[i].name)
                  \cup (IF d.decls[i].init = None THEN {}
                        ELSE BodiesOfExpr(d.decls[i].init[1])) : i \in 1..Len(d.decls)}
      [] d.t = "FnDecl" -> BodiesOfFunction(d.function, "function")
      [] OTHER -> {}

BodiesOfStmt(st) ==
    CASE st.t = "ExprStmt" -> BodiesOfExpr(st.expr)
      [] st.t = "Return" -> IF st.arg = None THEN {} ELSE BodiesOfExpr(st.arg[1])
      [] st.t = "Decl" -> BodiesOfDecl(st.decl)
      [] OTHER -> {}

BodiesOfItem(item) ==
    CASE item.t = "Stmt" -> BodiesOfStmt(item.stmt)
      [] item.t = "ExportDecl" -> BodiesOfDecl(item.decl)
      [] item.t = "ExportDefaultDecl" ->
           IF item.decl.t = "Fn" THEN BodiesOfFunction(item.decl.function, "function") ELSE {}
      [] item.t = "ExportDefaultExpr" -> BodiesOfExpr(item.expr)
      [] OTHER -> {}

BodiesOfItems(items) == UNION {BodiesOfItem(items[i]) : i \in 1..Len(items)}

\* the statements of a module, in order
IsStmtItem(item) == item.t = "Stmt"
ModuleStmts(items) ==
    LET only == SelectSeq(items, IsStmtItem) IN [i \in 1..Len(only) |-> only[i].stmt]

\* C11: after the pass no bare directive literal remains at directive
\* position of the module or of a function-like body in it, the bodies of
\* object methods included.
C11_NoDirectiveRemains ==
    pc = "done" =>
        /\ ~HasLeadingDirective(ModuleStmts(new))
        /\ \A b \in BodiesOfItems(new) : ~HasLeadingDirective(b.stmts)

\* the same, with the bodies of methods left out
C11_ExceptMethods ==
    pc = "done" =>
        /\ ~HasLeadingDirective(ModuleStmts(new))
        /\ \A b \in BodiesOfItems(new) : b.kind # "method" => ~HasLeadingDirective(b.stmts)

(***************************************************************************)
(* The module-level scan.                                                  *)
(***************************************************************************)
\* the number of diagnostics with the message msg
Count(handler, msg) == Cardinality({i \in 1..Len(handler) : handler[i].msg = msg})

IsStrItem(item) == item.t = "Stmt" /\ IsStrStmt(item.stmt)
\* the positions of the leading run of string-literal statements of a module
LeadingRun(items) == {i \in 1..Len(items) : \A j \in 1..i : IsStrItem(items[j])}
LeadingWith(items, v) == {i \in LeadingRun(items) : items[i].stmt.expr.value = v}

\* C12: the scan of a module with "use server" in its leading run of string
\* literals sets in_action_file and has_action and removes the statement;
\* with config.enabled false one error is reported for each such statement,
\* and the flags are set and the statement removed all the same.
C12_ModuleUseServer ==
    [][(pc = "start" /\ LeadingWith(stmts, UseServer) # {}) =>
          /\ self'.in_action_file /\ self'.has_action
          /\ LeadingWith(stmts', UseServer) = {}
          /\ Len(stmts') <= Len(stmts) - Cardinality(LeadingWith(stmts, UseServer))
          /\ Count(self'.handler, ErrDisabled)
                = IF self.config.enabled THEN 0
                  ELSE Cardinality(LeadingWith(stmts, UseServer))]_vars

C12_Witness ==
    /\ pc = "items"
    /\ ~self.config.enabled
    /\ LeadingWith(input.body, UseServer) # {}
    /\ self.in_action_file /\ self.has_action
    /\ Count(self.handler, ErrDisabled) = 1
    /\ LeadingWith(stmts, UseServer) = {}

\* the leading string literals that resemble the directive d without being a
\* recognized directive
Typos(items, d) ==
    {i \in LeadingRun(items) : /\ ~IsDirectiveText(items[i].stmt.expr.value)
                               /\ detect_similar_strings(items[i].stmt.expr.value, d)}
NoDirectiveIn(items) ==
    \A i \in LeadingRun(items) : ~IsDirectiveText(items[i].stmt.expr.value)

\* C13: in the module scan every leading string literal that resembles
\* "use server" or "use cache" without being a directive gets one "did you
\* mean" diagnostic naming the directive it resembles, stays in the module,
\* and sets none of in_action_file, in_cache_file, has_action, has_cache.
C13_ModuleTypo ==
    [][(pc = "start" /\ Typos(stmts, UseServer) \cup Typos(stmts, UseCache) # {}) =>
          /\ Count(self'.handler, ErrDidYouMeanServer) = Cardinality(Typos(stmts, UseServer))
          /\ Count(self'.handler, ErrDidYouMeanCache) = Cardinality(Typos(stmts, UseCache))
          /\ \A i \in Typos(stmts, UseServer) \cup Typos(stmts, UseCache) :
                \E j \in 1..Len(stmts') : stmts'[j] = stmts[i]
          /\ NoDirectiveIn(stmts) =>
                /\ ~self'.in_action_file /\ self'.in_cache_file = None
                /\ ~self'.has_action /\ ~self'.has_cache]_vars

\* the same for the literals that resemble "use cache" only
C13_CacheTypo ==
    [][(pc = "start" /\ Typos(stmts, UseCache) # {}) =>
          /\ Count(self'.handler, ErrDidYouMeanCache) = Cardinality(Typos(stmts, UseCache))
          /\ \A i \in Typos(stmts, UseCache) : \E j \in 1..Len(stmts') : stmts'[j] = stmts[i]
          /\ NoDirectiveIn(stmts) =>
                /\ ~self'.in_action_file /\ self'.in_cache_file = None
                /\ ~self'.has_action /\ ~self'.has_cache]_vars

(***************************************************************************)
(* The two directive scans applied to statement lists.                     *)
(***************************************************************************)
ScanPrologues ==
    Prologues \cup InlineDirectives
    \cup {<<>>,
          <<Directive(UseServer), Directive(UseServer)>>,
          <<ParenDirective(UseServers)>>,
          <<ParenDirective(UseStrict), Directive(UseServer)>>,
          <<ParenDirective(UseStrict), Directive(UseCache)>>,
          <<Directive(UseServer), ParenDirective(UseCache)>>,
          <<Directive(UseStrict), Plain, Directive(UseCache)>>}
ScanTails == {<<>>, <<Plain>>, <<SReturn(EIdent(id_g))>>}
ScanInputs ==
    [scan : {"fn", "module"}, stmts : {p \o t : p \in ScanPrologues, t \in ScanTails}]

ScanInit ==
    /\ pc = "scan"
    /\ fnIn \in ScanInputs
    /\ fnOut = <<>>
    /\ \E cfg \in Configs : self = server_actions(FileName, cfg)
    /\ input = [lo |-> ModuleLo, body |-> <<>>]
    /\ stmts = <<>>
    /\ new = <<>>
    /\ comments = <<>>

\* the scan of a function body: the statements kept and the out-parameters
ScanFn ==
    /\ pc = "scan"
    /\ fnIn.scan = "fn"
    /\ LET Scanned(r) ==
             fnOut' = <<[stmts |-> r.stmts, errors |-> r.errors,
                         action |-> r.is_action_fn, cache |-> r.cache_type,
                         has_action |-> FALSE, has_cache |-> FALSE,
                         action_span |-> r.action_span]>>
       IN Scanned(remove_server_directive_index_in_fn(fnIn.stmts, self.config.enabled))
    /\ pc' = "scanned"
    /\ UNCHANGED <<stmts, new, self, comments, input, fnIn>>

\* the scan of a module: the statements kept and the out-parameters
ScanModule ==
    /\ pc = "scan"
    /\ fnIn.scan = "module"
    /\ LET Scanned(r) ==
             fnOut' = <<[stmts |-> ModuleStmts(r.n), errors |-> r.s.handler,
                         action |-> r.s.in_action_file, cache |-> r.s.in_cache_file,
                         has_action |-> r.s.has_action, has_cache |-> r.s.has_cache,
                         action_span |-> None]>>
       IN Scanned(remove_server_directive_index_in_module(
                      [i \in 1..Len(fnIn.stmts) |-> MStmt(fnIn.stmts[i])], self))
    /\ pc' = "scanned"
    /\ UNCHANGED <<stmts, new, self, comments, input, fnIn>>

SpecScan == ScanInit /\ [][ScanFn \/ ScanModule]_vars

ParenMsgs == {ErrServerParen, ErrCacheParen, ErrServerTopParen, ErrCacheTopParen}
CountIn(errors, msgs) == Cardinality({i \in 1..Len(errors) : errors[i].msg \in msgs})
\* the positions of the statements `("use server")` and `("use cache")`
ParenDirectives(ss) ==
    {i \in 1..Len(ss) : /\ IsParenDirectiveStmt(ss[i])
                        /\ ss[i].expr.expr.value \in {UseServer, UseCache}}
Occurrences(ss, st) == Cardinality({i \in 1..Len(ss) : ss[i] = st})
NoBareDirective(ss) == \A i \in 1..Len(ss) : ~IsDirectiveStmt(ss[i])
Unclassified(r) == ~r.action /\ r.cache = None /\ ~r.has_action /\ ~r.has_cache

\* C14: in both scans every parenthesised "use server" or "use cache"
\* literal reports a "cannot be wrapped in parentheses" error, is kept, and
\* does not classify the module or the function.
C14_Parenthesised ==
    (pc = "scanned" /\ ParenDirectives(fnIn.stmts) # {}) =>
        /\ CountIn(fnOut[1].errors, ParenMsgs) = Cardinality(ParenDirectives(fnIn.stmts))
        /\ \A i \in ParenDirectives(fnIn.stmts) :
              Occurrences(fnOut[1].stmts, fnIn.stmts[i]) = Occurrences(fnIn.stmts, fnIn.stmts[i])
        /\ NoBareDirective(fnIn.stmts) => Unclassified(fnOut[1])

\* the same for the module scan alone
C14_ModuleOnly ==
    (pc = "scanned" /\ fnIn.scan = "module" /\ ParenDirectives(fnIn.stmts) # {}) =>
        /\ CountIn(fnOut[1].errors, ParenMsgs) = Cardinality(ParenDirectives(fnIn.stmts))
        /\ \A i \in ParenDirectives(fnIn.stmts) :
              Occurrences(fnOut[1].stmts, fnIn.stmts[i]) = Occurrences(fnIn.stmts, fnIn.stmts[i])
        /\ NoBareDirective(fnIn.stmts) => Unclassified(fnOut[1])

TopMsgs == {ErrServerTopOfFn, ErrCacheTopOfFn, ErrServerTopOfFile, ErrCacheTopOfFile}
IsParenStrStmt(st) == st.t = "ExprStmt" /\ st.expr.t = "Paren" /\ st.expr.expr.t = "Str"
\* the directive literals that stand after a statement that is no string
\* literal, bare or parenthesised
Misplaced(ss) ==
    {i \in 1..Len(ss) : /\ IsDirectiveStmt(ss[i])
                        /\ \E j \in 1..(i - 1) : ~IsStrStmt(ss[j]) /\ ~IsParenStrStmt(ss[j])}
\* the directive literals outside the leading run of bare string literals
NotLeading(ss) == {i \in 1..Len(ss) : IsDirectiveStmt(ss[i]) /\ ~AtDirectivePosition(ss, i)}

DirectiveCount(ss) == Cardinality({i \in 1..Len(ss) : IsDirectiveStmt(ss[i])})

\* C16: directive mode ends at the first statement that is not a bare
\* string literal, a parenthesised string literal included, and does not
\* resume: the directive literals after it are reported as misplaced and
\* kept, those before it are honoured and removed, whatever unrecognized
\* string literals stand before them.
C16_DirectiveMode ==
    pc = "scanned" =>
        /\ CountIn(fnOut[1].errors, TopMsgs) = Cardinality(NotLeading(fnIn.stmts))
        /\ DirectiveCount(fnOut[1].stmts) = Cardinality(NotLeading(fnIn.stmts))
        /\ Len(fnOut[1].stmts)
             = Len(fnIn.stmts) - (DirectiveCount(fnIn.stmts) - Cardinality(NotLeading(fnIn.stmts)))
        /\ NotLeading(fnIn.stmts) = {i \in 1..Len(fnIn.stmts) : IsDirectiveStmt(fnIn.stmts[i])}
             => Unclassified(fnOut[1])

\* the same for the scan of a function body alone
C16_FnOnly ==
    (pc = "scanned" /\ fnIn.scan = "fn") =>
        /\ CountIn(fnOut[1].errors, TopMsgs) = Cardinality(NotLeading(fnIn.stmts))
        /\ DirectiveCount(fnOut[1].stmts) = Cardinality(NotLeading(fnIn.stmts))
        /\ Len(fnOut[1].stmts)
             = Len(fnIn.stmts) - (DirectiveCount(fnIn.stmts) - Cardinality(NotLeading(fnIn.stmts)))
        /\ NotLeading(fnIn.stmts) = {i \in 1..Len(fnIn.stmts) : IsDirectiveStmt(fnIn.stmts[i])}
             => Unclassified(fnOut[1])

(***************************************************************************)
(* Function-likes that are not async.                                      *)
(***************************************************************************)
AsyncMsgs == {ErrActionsAsync, ErrArrowActionsAsync, ErrCacheAsync}
\* the function declarations, function expressions and arrows of the module
\* that an inline directive classifies and that are not async
InlineNotAsync(items) ==
    {b \in BodiesOfItems(items) : /\ b.kind \in {"function", "arrow"}
                                    /\ HasLeadingDirective(b.stmts)
                                    /\ ~b.is_async}

\* C18: every function declaration, function expression or arrow that is
\* classified as an action or a cache function and is not async makes the
\* pass report a "must be async" error, and its rewrite is still emitted.
C18_MustBeAsync ==
    (pc = "done" /\ InlineNotAsync(input.body) # {}) =>
        /\ CountIn(self.handler, AsyncMsgs) >= Cardinality(InlineNotAsync(input.body))
        /\ (self.config.is_react_server_layer /\ NoDirectiveIn(input.body))
             => Len(self.log) >= Cardinality(InlineNotAsync(input.body))

\* the same outside action files and cache files
C18_OutsideActionFiles ==
    (pc = "done" /\ InlineNotAsync(input.body) # {}
                 /\ ~self.in_action_file /\ self.in_cache_file = None) =>
        /\ CountIn(self.handler, AsyncMsgs) >= Cardinality(InlineNotAsync(input.body))
        /\ self.config.is_react_server_layer
             => Len(self.log) >= Cardinality(InlineNotAsync(input.body))

\* the same for function declarations and function expressions
C18_Functions ==
    pc = "done" =>
        CountIn(self.handler, AsyncMsgs)
          >= Cardinality({b \in InlineNotAsync(input.body) : b.kind = "function"})

(***************************************************************************)
(* Exports of an action file or cache file.                                *)
(***************************************************************************)
\* the module items that may not be exported from an action file or cache
\* file
Disallowed(item) ==
    \/ item.t = "ExportAll"
    \/ item.t = "ExportNamed" /\ item.src # None
    \/ item.t = "ExportDecl" /\ item.decl.t \notin {"FnDecl", "Var"}
    \/ /\ item.t = "ExportDecl" /\ item.decl.t = "Var"
       /\ \E i \in 1..Len(item.decl.decls) :
             item.decl.decls[i].init # None /\ IsLit(item.decl.decls[i].init[1])
    \/ item.t = "ExportDefaultDecl" /\ item.decl.t # "Fn"
    \/ /\ item.t = "ExportDefaultExpr"
       /\ ~(\/ item.expr.t \in {"Fn", "Ident", "Call"}
            \/ item.expr.t = "Arrow" /\ item.expr.is_async)

InBoundaryFile == self.in_action_file \/ self.in_cache_file # None
VisitsDisallowed == pc = "items" /\ stmts # <<>> /\ InBoundaryFile /\ Disallowed(Head(stmts))

\* C19 as stated: in an action file or cache file every disallowed export
\* reports one "Only async functions are allowed to be exported" error, and
\* the item is emitted and the loop goes on.
C19_Original ==
    [][VisitsDisallowed =>
          /\ Count(self'.handler, ErrExport) = Count(self.handler, ErrExport) + 1
          /\ Len(new') > Len(new)
          /\ stmts' = Tail(stmts)]_vars

\* C19 amended: every disallowed export reports one such error and the loop
\* goes on; the item is emitted on the server layer and in a cache file,
\* not in an action file on the client layer, where no item is emitted.
C19_DisallowedExport ==
    [][VisitsDisallowed =>
          /\ Count(self'.handler, ErrExport) = Count(self.handler, ErrExport) + 1
          /\ stmts' = Tail(stmts)
          /\ IF self.config.is_react_server_layer \/ ~self.in_action_file
             THEN /\ Len(new') > Len(new)
                  /\ Head(stmts).t # "ExportDefaultExpr"
                       => \E j \in (Len(new) + 1)..Len(new') : new'[j] = Head(stmts)
             ELSE new' = new]_vars

C19_Witness ==
    /\ pc = "items"
    /\ self.in_cache_file # None
    /\ ~self.config.is_react_server_layer
    /\ Count(self.handler, ErrExport) = 1
    /\ Len(input.body) = 2 /\ Disallowed(input.body[2])
    /\ stmts = <<>>
    /\ new = <<input.body[2]>>

(***************************************************************************)
(* The output for an action file on the client layer.                      *)
(***************************************************************************)
ClientActionFile == pc = "done" /\ ~self.config.is_react_server_layer /\ self.in_action_file

\* item is the import of createServerReference, callServer, findSourceMapURL
IsClientImport(item) ==
    /\ item.t = "Import"
    /\ item.src = "private-next-rsc-action-client-wrapper"
    /\ [i \in 1..Len(item.specifiers) |-> item.specifiers[i].local.sym]
         = <<"createServerReference", "callServer", "findSourceMapURL">>
    /\ \A i \in 1..Len(item.specifiers) : item.specifiers[i].imported = None

\* item exports createServerReference(id, callServer, undefined,
\* findSourceMapURL, name) under the name `name`, the identifiers being those
\* the import imp binds
IsClientExport(item, imp, name) ==
    LET call == IF name = "default" THEN item.expr ELSE item.decl.decls[1].init[1]
    IN /\ IF name = "default" THEN item.t = "ExportDefaultExpr"
          ELSE /\ item.t = "ExportDecl" /\ item.decl.t = "Var" /\ Len(item.decl.decls) = 1
               /\ item.decl.decls[1].name = PatIdent(Ident(name, EmptyCtxt))
       /\ call = ECall(EIdent(imp.specifiers[1].local),
                       <<ESym(generate_action_id(self.config.hash_salt, self.file_name, name)),
                         EIdent(imp.specifiers[2].local), EUndefined,
                         EIdent(imp.specifiers[3].local), ESym(name)>>)

\* the items from position k on are the import and one export for each
\* recorded export, in recording order
ClientItemsFrom(k) ==
    /\ Len(new) = k + Len(self.exported_idents)
    /\ IsClientImport(new[k])
    /\ \A i \in 1..Len(self.exported_idents) :
          IsClientExport(new[k + i], new[k], self.exported_idents[i].name)

\* C20 as stated: for an action file on the client layer the output is the
\* import of createServerReference, callServer and findSourceMapURL and one
\* export for each recorded export, in recording order, and nothing else.
C20_Original == ClientActionFile => ClientItemsFrom(1)

\* C20 amended: the output is that import and those exports, preceded by the
\* import of the cache wrapper when has_cache holds; no original item and no
\* hoisted definition is in it.
C20_ClientOutput ==
    ClientActionFile =>
        IF self.has_cache THEN new[1] = CacheImport /\ ClientItemsFrom(2)
        ELSE ClientItemsFrom(1)

C20_Witness ==
    /\ ClientActionFile
    /\ self.has_cache
    /\ Len(self.exported_idents) >= 1
    /\ \E i \in 1..Len(self.exported_idents) : self.exported_idents[i].name = "default"
    /\ Len(new) = 2 + Len(self.exported_idents)
    /\ self.hoisted_extra_items # <<>>
    /\ Len(input.body) = 2

(***************************************************************************)
(* The leading comment.                                                    *)
(***************************************************************************)
ActionId(name) == generate_action_id(self.config.hash_salt, self.file_name, name)
\* the names the catalogue has to list
CatalogueNames ==
    Range(self.export_actions)
    \cup (IF self.in_action_file
          THEN {self.exported_idents[i].name : i \in 1..Len(self.exported_idents)} ELSE {})

\* C1: at the end of the pass the leading comment is attached iff has_action,
\* and its JSON object maps actionId(name) to name for every name in
\* export_actions and, in an action file, every recorded export name, and
\* has no other entry.
C1_Catalogue ==
    pc = "done" =>
        /\ (comments # <<>>) <=> self.has_action
        /\ self.has_action =>
              /\ Len(comments) = 1
              /\ comments[1].pos = input.lo
              /\ DOMAIN comments[1].text.json = {ActionId(name) : name \in CatalogueNames}
              /\ \A name \in CatalogueNames : comments[1].text.json[ActionId(name)] = name

C1_Witness ==
    /\ pc = "done"
    /\ self.in_action_file
    /\ self.export_actions # <<>>
    /\ self.exported_idents # <<>>
    /\ Cardinality(DOMAIN comments[1].text.json)
         = Len(self.export_actions) + Len(self.exported_idents)

(***************************************************************************)
(* Hoisted definitions and their proxies in the output.                    *)
(***************************************************************************)
\* the names of the hoisted functions (an anonymous default export of an
\* action file also gets a generated name, but is not hoisted)
HoistedNames == Range(self.export_actions)

\* registerServerReference(<generated name>, id, null) in the output
IsProxyCall(e) ==
    /\ e.callee = EIdent(QuoteIdent("registerServerReference"))
    /\ Len(e.args) = 3
    /\ e.args[1].t = "Ident" /\ e.args[1].id.sym \in HoistedNames
    /\ e.args[3] = ENull
Proxies(items) == {b.call : b \in {c \in BodiesOfItems(items) : c.kind = "call" /\ IsProxyCall(c.call)}}

\* a top-level exported definition of a hoisted function: `export [async]
\* function <name>(..) {..}` or `export var <name> = $$cache__(kind, id, fn)`
IsHoistedDef(item) ==
    /\ item.t = "ExportDecl"
    /\ \/ item.decl.t = "FnDecl" /\ item.decl.ident.sym \in HoistedNames
       \/ /\ item.decl.t = "Var" /\ Len(item.decl.decls) = 1
          /\ item.decl.decls[1].name.t = "PatIdent"
          /\ item.decl.decls[1].name.id.sym \in HoistedNames
HoistedName(item) ==
    IF item.decl.t = "FnDecl" THEN item.decl.ident ELSE item.decl.decls[1].name.id
HoistedFunction(item) ==
    IF item.decl.t = "FnDecl" THEN item.decl.function
    ELSE item.decl.decls[1].init[1].args[3].function
HoistedDefs(items) == {i \in 1..Len(items) : IsHoistedDef(items[i])}

\* C2: every proxy registerServerReference(<hoisted name>, id, null) of the
\* output has exactly one top-level exported hoisted definition of that name
\* in the output.
C2_HoistSound ==
    pc = "done" =>
        \A p \in Proxies(new) :
            Cardinality({i \in HoistedDefs(new) : HoistedName(new[i]) = p.args[1].id}) = 1

C2_Witness ==
    /\ pc = "done"
    /\ Cardinality(Proxies(new)) = 2
    /\ Cardinality(HoistedDefs(new)) = 2
    /\ \E i \in HoistedDefs(new) : Proxies(<<new[i]>>) # {}

\* C3: every hoisted definition is an async function, also when the original
\* function was not async.
C3_HoistedAsync ==
    pc = "done" => \A i \in HoistedDefs(new) : HoistedFunction(new[i]).is_async

\* what holds: the definitions hoisted from arrows are async
C3_Arrows ==
    pc = "done" =>
        \A i \in HoistedDefs(new) :
            (\E k \in 1..Len(self.log) :
                /\ self.log[k].name = HoistedName(new[i]).sym
                /\ self.log[k].variant \in {"action_arrow", "cache_arrow"})
            => HoistedFunction(new[i]).is_async

(***************************************************************************)
(* Captures.                                                               *)
(***************************************************************************)
\* the identifiers a function refers to, in its parameters and its body
IdentsIn(f) == {b.call.id : b \in {c \in BodiesOfFunction(f, "function") : c.kind = "ident"}}

\* the entry of the record of hoists for a hoisted definition
HoistOf(item) ==
    self.log[CHOOSE k \in 1..Len(self.log) : self.log[k].name = HoistedName(item).sym]
Captures(item) == HoistOf(item).ids_from_closure

\* C4: in a hoisted body with captures, no occurrence of an identifier that
\* refers to the base binding of a captured name remains.
C4_NoCapturedIdent ==
    pc = "done" =>
        \A i \in HoistedDefs(new) :
            \A k \in 1..Len(Captures(new[i])) :
                Captures(new[i])[k].id \notin IdentsIn(HoistedFunction(new[i]))

\* the calls of the output, and the proxy of a hoisted definition
Calls(items) == {b.call : b \in {c \in BodiesOfItems(items) : c.kind = "call"}}
ProxiesOf(item) == {p \in Proxies(new) : p.args[1].id = HoistedName(item)}

\* proxy.bind(null, encryptActionBoundArgs(id, [..])) around the proxy p
BindWrappers(p) == {c \in Calls(new) : c.callee = EMember(p, "bind")}
IsEncryptCall(e) ==
    /\ e.t = "Call"
    /\ e.callee = EIdent(QuoteIdent("encryptActionBoundArgs"))
    /\ Len(e.args) = 2
    /\ e.args[2].t = "Array"

\* var [$$ACTION_ARG_0, ..] = await decryptActionBoundArgs(id, $$ACTION_CLOSURE_BOUND)
IsDecryptionStmt(st) ==
    /\ st.t = "Decl" /\ st.decl.t = "Var" /\ Len(st.decl.decls) = 1
    /\ st.decl.decls[1].name.t = "PatArray"
    /\ st.decl.decls[1].init # None
    /\ st.decl.decls[1].init[1].t = "Await"
    /\ st.decl.decls[1].init[1].arg.t = "Call"
    /\ st.decl.decls[1].init[1].arg.callee = EIdent(QuoteIdent("decryptActionBoundArgs"))
    /\ Len(st.decl.decls[1].init[1].arg.args) = 2
    /\ st.decl.decls[1].init[1].arg.args[2] = EIdent(QuoteIdent(ClosureBound))
Placeholders(st) ==
    [i \in 1..Len(st.decl.decls[1].name.elems) |-> st.decl.decls[1].name.elems[i].id.sym]
HoistedStmts(item) ==
    IF HoistedFunction(item).body = None THEN <<>> ELSE HoistedFunction(item).body[1].stmts
HasClosureBound(params) ==
    \E i \in 1..Len(params) : params[i] = ClosureBoundParam

\* the captured names as the arguments of the bind wrapper: as they are, or,
\* for a proxy inside another hoisted body, with the placeholders of that body
BoundAs(captures) ==
    {BoundArgs(captures)}
    \cup {[i \in 1..Len(captures) |->
              CR_with("Expr", NameToExpr(captures[i]), self.log[h].ids_from_closure,
                      self.private_ctxt)] : h \in 1..Len(self.log)}

\* the placeholders the body of a hoisted definition refers to
PlaceholdersUsed(item) ==
    {i.sym : i \in {j \in IdentsIn(HoistedFunction(item)) :
                        j.sym \in {ActionArg(n) : n \in 0..Len(self.declared_idents)}}}

\* the parameter lists of the function-likes of the input
OriginalParams ==
    {b.params : b \in {c \in BodiesOfItems(input.body) : c.kind = "params"}}

C5_WithCaptures(item) ==
    LET f == HoistedFunction(item)
        k == Len(Captures(item))
    IN /\ f.params = <<ClosureBoundParam>> \o HoistOf(item).params
       /\ HoistOf(item).params \in OriginalParams
       /\ HoistedStmts(item) # <<>>
       /\ IsDecryptionStmt(HoistedStmts(item)[1])
       /\ Placeholders(HoistedStmts(item)[1]) = [i \in 1..k |-> ActionArg(i - 1)]
       /\ \A p \in ProxiesOf(item) :
             /\ BindWrappers(p) # {}
             /\ \A c \in BindWrappers(p) :
                   /\ Len(c.args) = 2 /\ c.args[1] = ENull
                   /\ IsEncryptCall(c.args[2])
                   /\ c.args[2].args[2].elems \in BoundAs(Captures(item))
       /\ PlaceholdersUsed(item) \subseteq {ActionArg(i - 1) : i \in 1..k}

C5_WithoutCaptures(item) ==
    /\ HoistedFunction(item).params = HoistOf(item).params
    /\ HoistOf(item).params \in OriginalParams
    /\ ~HasClosureBound(HoistedFunction(item).params)
    /\ \A i \in 1..Len(HoistedStmts(item)) : ~IsDecryptionStmt(HoistedStmts(item)[i])
    /\ \A p \in ProxiesOf(item) : BindWrappers(p) = {}

\* C5: a hoisted function with k > 0 captures has $$ACTION_CLOSURE_BOUND as
\* first parameter followed by the original parameters, its first statement
\* destructures exactly k placeholders from decryptActionBoundArgs, and its
\* proxy is wrapped in bind(null, encryptActionBoundArgs(id, [c0..])); with
\* k = 0 there is none of the three.
C5_Captures ==
    pc = "done" =>
        \A i \in HoistedDefs(new) :
            IF Captures(new[i]) # <<>> THEN C5_WithCaptures(new[i])
            ELSE C5_WithoutCaptures(new[i])

\* the same for the definitions hoisted from a function that another hoist
\* has not taken before
C5_NotTaken ==
    pc = "done" =>
        \A i \in HoistedDefs(new) :
            HoistOf(new[i]).params \in OriginalParams =>
                IF Captures(new[i]) # <<>> THEN C5_WithCaptures(new[i])
                ELSE C5_WithoutCaptures(new[i])

\* C6: for every hoisted function the id passed to registerServerReference,
\* to encryptActionBoundArgs, to decryptActionBoundArgs and, for the cache
\* variants, to $$cache__ is the same literal: the id computed from the hash
\* salt, the file name and the hoisted name.
C6_SameId ==
    pc = "done" =>
        \A i \in HoistedDefs(new) :
            LET id == ESym(ActionId(HoistedName(new[i]).sym))
                ss == HoistedStmts(new[i])
            IN /\ \A p \in ProxiesOf(new[i]) :
                     /\ p.args[2] = id
                     /\ \A c \in BindWrappers(p) :
                           IsEncryptCall(c.args[2]) /\ c.args[2].args[1] = id
               /\ \A n \in 1..Len(ss) :
                     IsDecryptionStmt(ss[n]) => ss[n].decl.decls[1].init[1].arg.args[1] = id
               /\ new[i].decl.t = "Var" => new[i].decl.decls[1].init[1].args[2] = id

C6_Witness ==
    /\ pc = "done"
    /\ self.config.hash_salt = "salt"
    /\ \E i \in HoistedDefs(new) :
          /\ new[i].decl.t = "Var"
          /\ Captures(new[i]) # <<>>
          /\ IsDecryptionStmt(HoistedStmts(new[i])[1])
          /\ \E p \in ProxiesOf(new[i]) : BindWrappers(p) # {}

\* the scope of the function of the k-th hoist.  A function with both
\* directives is hoisted twice, the second time after Take::take has emptied
\* it: its scope is that of the hoist before.
FnScope(k) ==
    IF self.log[k].ctxt = EmptyCtxt /\ k > 1 THEN self.log[k - 1].ctxt ELSE self.log[k].ctxt

\* the function scopes that enclose a scope of the inputs, and the bindings
\* declared in them before the function-like under study
EnclosingScopes(ctxt) ==
    CASE ctxt = InnerScope -> {OuterScope, MidScope}
      [] ctxt = MidScope -> {OuterScope}
      [] OTHER -> {}
DeclaredEarlier == {id_x, id_y, id_m, id_k}

\* C7: no capture of a hoisted function has a module-scope base or a base
\* that is a parameter or a local of the function itself; the base of every
\* capture was declared, before the function was entered, in a function
\* scope that encloses it.
C7_CaptureBases ==
    \A k \in 1..Len(self.log) :
        \A n \in 1..Len(self.log[k].ids_from_closure) :
            LET base == self.log[k].ids_from_closure[n].id
            IN /\ base.ctxt # TopLevelCtxt
               /\ base.ctxt # FnScope(k)
               /\ base.ctxt \in EnclosingScopes(FnScope(k))
               /\ base \in DeclaredEarlier

\* the hoisted function reads w, declared later in the enclosing function,
\* and y, declared earlier: y alone is captured
C7_Witness ==
    /\ pc = "done"
    /\ \E i \in HoistedDefs(new) :
          /\ Captures(new[i]) = <<Name(id_y, <<>>)>>
          /\ id_w \in IdentsIn(HoistedFunction(new[i]))

\* the bodies of the function-likes of the input that have "use cache" or
\* "use cache: <kind>" at directive position, and the identifiers they read
IsCacheText(value) ==
    \/ value = UseCache
    \/ /\ Len(value) > Len(UseCachePrefix)
       /\ SubSeq(value, 1, Len(UseCachePrefix)) = UseCachePrefix
CacheBodies(items) ==
    {b \in BodiesOfItems(items) :
        /\ b.kind \in {"function", "arrow"}
        /\ \E i \in 1..Len(b.stmts) :
              AtDirectivePosition(b.stmts, i) /\ IsCacheText(b.stmts[i].expr.value)}
IdentsOfStmts(ss) == {b.call.id : b \in {c \in BodiesOfStmts(ss) : c.kind = "ident"}}
CacheHoists == {k \in 1..Len(self.log) : self.log[k].variant \in {"cache_arrow", "cache_function"}}

\* C9: a function-like with "use cache" at directive position that reads a
\* variable declared earlier in an enclosing function captures it, and its
\* proxy is wrapped in bind, also when no enclosing function is an action.
C9_CacheCaptures ==
    pc = "done" =>
        /\ \A b \in CacheBodies(input.body) :
              \A v \in IdentsOfStmts(b.stmts) \cap DeclaredEarlier :
                  \E k \in CacheHoists :
                      \E n \in 1..Len(self.log[k].ids_from_closure) :
                          self.log[k].ids_from_closure[n].id = v
        /\ \A i \in HoistedDefs(new) :
              (new[i].decl.t = "Var" /\ Captures(new[i]) # <<>>)
              => \A p \in ProxiesOf(new[i]) : BindWrappers(p) # {}

\* what holds: the cache hoists capture what the actions capture when an
\* enclosing function is an action, or when the function itself is one too
C9_InsideAction ==
    pc = "done" =>
        \A k \in CacheHoists :
            self.log[k].ids_from_closure # <<>> =>
                \/ \E i \in 1..Len(input.body) :
                      \E b \in BodiesOfItems(<<input.body[i]>>) :
                          /\ b.kind \in {"function", "arrow"}
                          /\ \E j \in 1..Len(b.stmts) :
                                /\ AtDirectivePosition(b.stmts, j)
                                /\ b.stmts[j].expr.value = UseServer

(***************************************************************************)
(* The exported members of a server boundary file.                         *)
(***************************************************************************)
\* the item exports a function-like directly
DirectExport(item) ==
    \/ item.t = "ExportDecl" /\ item.decl.t = "FnDecl"
    \/ /\ item.t = "ExportDecl" /\ item.decl.t = "Var"
       /\ Len(item.decl.decls) = 1
       /\ item.decl.decls[1].init # None
       /\ item.decl.decls[1].init[1].t \in {"Arrow", "Fn"}
    \/ item.t = "ExportDefaultDecl" /\ item.decl.t = "Fn"
    \/ item.t = "ExportDefaultExpr" /\ item.expr.t \in {"Arrow", "Fn"}
VisitsDirectExport == pc = "items" /\ stmts # <<>> /\ InBoundaryFile /\ DirectExport(Head(stmts))
ItemsEmitted == self.config.is_react_server_layer \/ ~self.in_action_file

\* C10: for a function-like that is a directly exported top-level member of
\* an action file or cache file no hoisted definition is created, nothing is
\* appended to exportActions and the original definition stays in place.
C10_ExportedInPlace ==
    [][VisitsDirectExport =>
          /\ self'.log = self.log
          /\ self'.export_actions = self.export_actions
          /\ ItemsEmitted =>
                \E j \in (Len(new) + 1)..Len(new') :
                    new'[j].t = Head(stmts).t /\ DirectExport(new'[j])]_vars

\* what holds: the exported function declarations of an action file that
\* carry no "use cache" of their own
C10_ActionFileDecls ==
    [][(/\ VisitsDirectExport /\ self.in_action_file
        /\ Head(stmts).t = "ExportDecl" /\ Head(stmts).decl.t = "FnDecl"
        /\ CacheBodies(<<Head(stmts)>>) = {}) =>
          /\ self'.log = self.log
          /\ self'.export_actions = self.export_actions
          /\ ItemsEmitted =>
                \E j \in (Len(new) + 1)..Len(new') :
                    new'[j].t = Head(stmts).t /\ DirectExport(new'[j])]_vars

(***************************************************************************)
(* retain_names_from_declared_idents on its own: the names are drawn from  *)
(* x, x.p, x.p.q, x?.p, g and g.p, the declared identifiers from x and g.  *)
(***************************************************************************)
MemberPart(prop) == NamePart(prop, TRUE, FALSE)
NameUniverse ==
    {Name(id_x, <<>>), Name(id_x, <<MemberPart("p")>>),
     Name(id_x, <<MemberPart("p"), MemberPart("q")>>),
     Name(id_x, <<NamePart("p", FALSE, TRUE)>>),
     Name(id_g, <<>>), Name(id_g, <<MemberPart("p")>>)}
DeclaredLists == {<<>>, <<id_x>>, <<id_g>>, <<id_x, id_g>>, <<id_x, id_x>>}

RECURSIVE NameLists(_)
NameLists(n) ==
    IF n = 0 THEN {<<>>}
    ELSE LET shorter == NameLists(n - 1)
         IN shorter \cup {Append(ns, name) : ns \in shorter, name \in NameUniverse}

RetainInit ==
    /\ pc = "retain"
    /\ \E child_names \in NameLists(MaxNames), declared \in DeclaredLists :
          fnIn = <<child_names, declared>>
    /\ fnOut = <<>>
    /\ self = server_actions(FileName, CHOOSE cfg \in Configs : cfg.hash_salt = "salt")
    /\ input = [lo |-> ModuleLo, body |-> <<>>]
    /\ stmts = <<>>
    /\ new = <<>>
    /\ comments = <<>>

\* retain_names_from_declared_idents(&mut child_names, declared)
ApplyRetain ==
    /\ pc = "retain"
    /\ fnOut' = <<retain_names_from_declared_idents(fnIn[1], fnIn[2])>>
    /\ pc' = "retained"
    /\ UNCHANGED <<stmts, new, self, comments, input, fnIn>>

\* the same call on the list the first call left
ApplyRetainAgain ==
    /\ pc = "retained"
    /\ fnOut' = Append(fnOut, retain_names_from_declared_idents(fnOut[1], fnIn[2]))
    /\ pc' = "retained_twice"
    /\ UNCHANGED <<stmts, new, self, comments, input, fnIn>>

SpecRetain == RetainInit /\ [][ApplyRetain \/ ApplyRetainAgain]_vars

\* shorter is a proper prefix of name: same base, shorter equal part sequence
ProperPrefix(shorter, name) ==
    /\ shorter.id = name.id
    /\ Len(shorter.parts) < Len(name.parts)
    /\ \A i \in 1..Len(shorter.parts) : shorter.parts[i] = name.parts[i]
FirstIndex(ns, name) == CHOOSE i \in 1..Len(ns) : ns[i] = name /\ \A j \in 1..(i - 1) : ns[j] # name

\* C8: every name retain_names_from_declared_idents returns has its base
\* among the declared identifiers, none occurs twice, none has a proper
\* prefix in the input, the survivors keep the order of their first
\* occurrence in the input, and a second application returns the same list.
C8_Retain ==
    /\ pc \in {"retained", "retained_twice"} =>
          LET out == fnOut[1]
          IN /\ \A i \in 1..Len(out) :
                   /\ out[i].id \in Range(fnIn[2])
                   /\ out[i] \in Range(fnIn[1])
                   /\ \A n \in 1..Len(fnIn[1]) : ~ProperPrefix(fnIn[1][n], out[i])
             /\ \A i, j \in 1..Len(out) :
                   i < j => /\ out[i] # out[j]
                            /\ FirstIndex(fnIn[1], out[i]) < FirstIndex(fnIn[1], out[j])
    /\ pc = "retained_twice" => fnOut[2] = fnOut[1]

C8_Witness ==
    /\ pc = "retained_twice"
    /\ Len(fnIn[1]) = 3
    /\ fnOut[1] = <<Name(id_x, <<MemberPart("p")>>)>>
    /\ \E n \in 1..3 : ProperPrefix(fnOut[1][1], fnIn[1][n])
    /\ \E n \in 1..3 : fnIn[1][n].id \notin Range(fnIn[2])

(***************************************************************************)
(* The tail of an action file on the server layer.                         *)
(***************************************************************************)
ServerActionFile == pc = "done" /\ self.in_action_file /\ self.config.is_react_server_layer

\* registerServerReference(binding, actionId(exportName), null); for the
\* recorded export e
IsAnnotationOf(item, e) ==
    item = MStmt(SExpr(ECall(EIdent(QuoteIdent("registerServerReference")),
                             <<EIdent(e.ident), ESym(ActionId(e.name)), ENull>>)))
IsAnnotation(item) ==
    /\ item.t = "Stmt" /\ item.stmt.t = "ExprStmt" /\ item.stmt.expr.t = "Call"
    /\ item.stmt.expr.callee = EIdent(QuoteIdent("registerServerReference"))
\* ensureServerEntryExports([bindings])
IsEnsureCall(item) ==
    /\ item.t = "Stmt" /\ item.stmt.t = "ExprStmt" /\ item.stmt.expr.t = "Call"
    /\ item.stmt.expr.callee.t = "Ident"
    /\ item.stmt.expr.callee.id.sym = "ensureServerEntryExports"
EnsureCalls == {i \in 1..Len(new) : IsEnsureCall(new[i])}
Annotations == {i \in 1..Len(new) : IsAnnotation(new[i])}
RecordedBindings ==
    [i \in 1..Len(self.exported_idents) |-> EIdent(self.exported_idents[i].ident)]

Occurs(item) == {i \in 1..Len(new) : new[i] = item}
NeedsServerImports == (self.has_action \/ self.has_cache) /\ self.config.is_react_server_layer
AddedImports == {CacheImport, ServerReferenceImport, EncryptionImport}
AddedAt == {i \in 1..Len(new) : new[i] \in AddedImports}

\* C22: the output has the import of cache as $$cache__ iff has_cache, and
\* the imports of registerServerReference and of encryptActionBoundArgs,
\* decryptActionBoundArgs iff (has_action or has_cache) on the server layer;
\* each occurs at most once and they precede every other item of the output.
C22_Imports ==
    pc = "done" =>
        /\ Cardinality(Occurs(CacheImport)) = IF self.has_cache THEN 1 ELSE 0
        /\ Cardinality(Occurs(ServerReferenceImport)) = IF NeedsServerImports THEN 1 ELSE 0
        /\ Cardinality(Occurs(EncryptionImport)) = IF NeedsServerImports THEN 1 ELSE 0
        /\ AddedAt = 1..Cardinality(AddedAt)

C22_Witness ==
    /\ pc = "done"
    /\ self.has_cache /\ NeedsServerImports
    /\ Cardinality(AddedAt) = 3
    /\ Len(input.body) = 2
    /\ Len(new) > 4

\* on the client layer a cache function brings the cache import alone
C22_ClientWitness ==
    /\ pc = "done"
    /\ self.has_cache /\ ~self.config.is_react_server_layer
    /\ AddedAt = {1}
    /\ Len(new) > 1

(***************************************************************************)
(* The order of the items one iteration of the loop emits.                 *)
(***************************************************************************)
VisitsEmitted == pc = "items" /\ stmts # <<>> /\ ItemsEmitted
IsCacheHoist(h) == h.variant \in {"cache_arrow", "cache_function"}
IsActionHoist(h) == h.variant \in {"action_arrow", "action_function"}
HoistNames(hs) == [i \in 1..Len(hs) |-> hs[i].name]
IsCacheDef(item, name) ==
    /\ item.t = "ExportDecl" /\ item.decl.t = "Var" /\ Len(item.decl.decls) = 1
    /\ item.decl.decls[1].name.t = "PatIdent" /\ item.decl.decls[1].name.id.sym = name
IsActionDef(item, name) ==
    item.t = "ExportDecl" /\ item.decl.t = "FnDecl" /\ item.decl.ident.sym = name
\* var <ident>; queued by attach_name_to_expr
IsNameDecl(item) ==
    /\ item.t = "Stmt" /\ item.stmt.t = "Decl" /\ item.stmt.decl.t = "Var"
    /\ Len(item.stmt.decl.decls) = 1 /\ item.stmt.decl.decls[1].init = None

\* out is: the cache definitions, one item, the name declarations and the
\* action definitions, the definitions in the order they were hoisted in
InEmitOrder(out, cacheNames, actionNames) ==
    LET H == Len(cacheNames)
        IsDef(item) == \E i \in 1..Len(actionNames) : IsActionDef(item, actionNames[i])
        after == SubSeq(out, H + 2, Len(out))
        defs == SelectSeq(after, IsDef)
    IN /\ Len(out) >= H + 1
       /\ \A i \in 1..H : IsCacheDef(out[i], cacheNames[i])
       /\ \A i \in 1..Len(after) : IsDef(after[i]) \/ IsNameDecl(after[i])
       /\ Len(defs) = Len(actionNames)
       /\ \A i \in 1..Len(defs) : IsActionDef(defs[i], actionNames[i])

\* C23: for each emitted module item the definitions queued in
\* hoisted_extra_items during its visit come immediately before the
\* rewritten item and those queued in extra_items immediately after it, each
\* queue in FIFO order, and the three queues are empty before the next item
\* is visited.
C23_EmitOrder ==
    [][VisitsEmitted =>
          LET fresh == SubSeq(self'.log, Len(self.log) + 1, Len(self'.log))
          IN /\ InEmitOrder(SubSeq(new', Len(new) + 1, Len(new')),
                            HoistNames(SelectSeq(fresh, IsCacheHoist)),
                            HoistNames(SelectSeq(fresh, IsActionHoist)))
             /\ self'.hoisted_extra_items = <<>>
             /\ self'.annotations = <<>>
             /\ self'.extra_items = <<>>]_vars

\* the positions of the output whose item holds the proxy of the hoisted name
HoldsProxyOf(item, name) == \E p \in Proxies(<<item>>) : p.args[1].id.sym = name
ProxyAt(name) == {i \in 1..Len(new) : HoldsProxyOf(new[i], name)}
DefAt(name) == {i \in 1..Len(new) : IsCacheDef(new[i], name) \/ IsActionDef(new[i], name)}

\* C23, the consequence as stated: a hoisted cache definition precedes the
\* item that holds its proxy and a hoisted action definition follows it.
C23_Original ==
    (pc = "done" /\ ItemsEmitted) =>
        \A k \in 1..Len(self.log) :
            \A d \in DefAt(self.log[k].name) : \A p \in ProxyAt(self.log[k].name) :
                IF IsCacheHoist(self.log[k]) THEN d < p ELSE p < d

C23_Witness ==
    /\ pc = "done" /\ ItemsEmitted
    /\ \E k \in 1..Len(self.log) :
          /\ IsCacheHoist(self.log[k])
          /\ \E d \in DefAt(self.log[k].name) : \E p \in ProxyAt(self.log[k].name) : d < p
    /\ \E k \in 1..Len(self.log) :
          /\ IsActionHoist(self.log[k])
          /\ \E d \in DefAt(self.log[k].name) : \E p \in ProxyAt(self.log[k].name) : p < d

(***************************************************************************)
(* The inline-directive diagnostics of get_body_info.                      *)
(***************************************************************************)
HasDirective(ss, ok(_)) ==
    \E i \in 1..Len(ss) : AtDirectivePosition(ss, i) /\ ok(ss[i].expr.value)
IsServerText(value) == value = UseServer
\* the bodies get_body_info is called on: those of function declarations,
\* function expressions and arrows
IsBody(b) == b.kind \in {"function", "arrow"}
InputBodies == {b \in BodiesOfItems(input.body) : IsBody(b)}
InlineServerBodies == {b \in InputBodies : HasDirective(b.stmts, IsServerText)}
InlineCacheBodies == {b \in InputBodies : HasDirective(b.stmts, IsCacheText)}
ReportedInline(msg, bodies, exempt) ==
    Count(self.handler, msg) > 0 <=>
        (~self.config.is_react_server_layer /\ ~exempt /\ bodies # {})

\* C24: on the client layer a function body with "use server" at directive
\* position reports the inline Server Actions error iff the module is not an
\* action file, and one with "use cache" reports the cache error iff the
\* module is not a cache file; on the server layer neither is reported, and
\* a function classified through its export context only reports neither.
C24_InlineErrors ==
    pc = "done" =>
        /\ ReportedInline(ErrInlineServerInClient, InlineServerBodies, self.in_action_file)
        /\ ReportedInline(ErrInlineCacheInClient, InlineCacheBodies, IsSome(self.in_cache_file))

C24_Witness ==
    /\ pc = "done" /\ ~self.config.is_react_server_layer
    /\ InlineServerBodies # {} /\ ~self.in_action_file
    /\ Count(self.handler, ErrInlineServerInClient) > 0

C24_ExemptWitness ==
    /\ pc = "done" /\ ~self.config.is_react_server_layer
    /\ InlineCacheBodies # {} /\ IsSome(self.in_cache_file)
    /\ Count(self.handler, ErrInlineCacheInClient) = 0

(***************************************************************************)
(* One hoist for each classified function-like.                            *)
(***************************************************************************)
\* the parameter lists of the function-likes of the input
FunctionLikes == {c \in BodiesOfItems(input.body) : c.kind = "params"}

\* C25: one visit of a function declaration, function expression or arrow
\* appends at most one name to export_actions and queues at most one hoisted
\* definition, whose body is the rewritten body of the function, also when
\* the body carries both "use server" and "use cache".
C25_HoistedOnce ==
    pc = "done" =>
        /\ Cardinality(FunctionLikes) = 1 =>
              Len(self.export_actions) <= 1 /\ Len(self.log) <= 1
        /\ \A i \in HoistedDefs(new) : HoistedFunction(new[i]).body # None

\* the same for modules in which no body carries both directives
C25_OneDirective ==
    (pc = "done" /\ InlineServerBodies \cap InlineCacheBodies = {}) =>
        /\ Cardinality(FunctionLikes) = 1 =>
              Len(self.export_actions) <= 1 /\ Len(self.log) <= 1
        /\ \A i \in HoistedDefs(new) : HoistedFunction(new[i]).body # None

(***************************************************************************)
(* The default-exported expression around a hoisted function expression.   *)
(***************************************************************************)
IsDefaultCall(item) == item.t = "ExportDefaultExpr" /\ item.expr.t = "Call"
IsProxyExpr(e) == e.t = "Call" /\ IsProxyCall(e)
\* a default-exported expression of items holds a call of callee
KeepsCall(items, callee) ==
    \E i \in 1..Len(items) :
        /\ items[i].t = "ExportDefaultExpr"
        /\ \E c \in BodiesOfItem(items[i]) : c.kind = "call" /\ c.call.callee = callee

\* C26: a hoisted function expression nested in a default-exported
\* expression is replaced in place, so the item `export default <call>` of
\* the input is emitted with the call that surrounds the function.
C26_SurroundingKept ==
    (pc = "done" /\ ItemsEmitted) =>
        \A i \in 1..Len(input.body) :
            (IsDefaultCall(input.body[i]) /\ ~IsProxyExpr(input.body[i].expr))
                => KeepsCall(new, input.body[i].expr.callee)

\* the same when the function in the call is not hoisted
C26_NotHoisted ==
    (pc = "done" /\ ItemsEmitted /\ self.log = <<>>) =>
        \A i \in 1..Len(input.body) :
            (IsDefaultCall(input.body[i]) /\ ~IsProxyExpr(input.body[i].expr))
                => KeepsCall(new, input.body[i].expr.callee)

(***************************************************************************)
(* The scope flags.                                                        *)
(***************************************************************************)
ScopeFlags(s) ==
    <<s.in_export_decl, s.in_default_export_decl, s.in_module_level,
      s.should_track_names, s.in_callee>>

\* C27: when the visit of an item has returned, and so at the end of the
\* pass, in_export_decl, in_default_export_decl, in_module_level,
\* should_track_names and in_callee hold their initial values (false, false,
\* true, false, false); while the children of a function, arrow or method
\* are visited in_export_decl and in_default_export_decl are false, and
\* in_module_level is false in a function or arrow.
C27_ScopeFlags ==
    /\ ScopeFlags(self) = <<FALSE, FALSE, TRUE, FALSE, FALSE>>
    /\ \A o \in self.seen :
          o.within # "module" =>
              /\ ~o.in_export_decl /\ ~o.in_default_export_decl
              /\ o.within = "function" => ~o.in_module_level

C27_Witness ==
    /\ pc = "done"
    /\ \E o \in self.seen : o.within = "function"
    /\ \E o \in self.seen : o.in_export_decl /\ o.in_default_export_decl

C27_MethodWitness == pc = "done" /\ \E o \in self.seen : o.within = "method"

(***************************************************************************)
(* The binding of the placeholders.                                        *)
(***************************************************************************)
\* the identifiers the decrypt destructuring of a hoisted body declares
DeclaredPlaceholders(item) ==
    LET ss == HoistedStmts(item)
    IN UNION {{ss[k].decl.decls[1].name.elems[j].id :
                  j \in 1..Len(ss[k].decl.decls[1].name.elems)} :
              k \in {n \in 1..Len(ss) : IsDecryptionStmt(ss[n])}}
\* the placeholders the body reads
SubstitutedPlaceholders(item) ==
    {u \in IdentsIn(HoistedFunction(item)) :
        u.sym \in {ActionArg(n) : n \in 0..Len(self.declared_idents)}}
SameBinding(item) ==
    /\ \A d \in DeclaredPlaceholders(item) : d.ctxt = self.private_ctxt
    /\ \A u \in SubstitutedPlaceholders(item) : u \in DeclaredPlaceholders(item)

\* C28: in every hoisted definition with captures, of all four hoisting
\* variants, the placeholder the decrypt destructuring declares and the
\* $$ACTION_ARG_<i> identifier substituted in the body are the same binding:
\* the same symbol in the private hygiene context of the transform.
C28_PlaceholderBinding ==
    pc = "done" =>
        \A i \in HoistedDefs(new) : Captures(new[i]) # <<>> => SameBinding(new[i])

\* the same for the two action variants
C28_ActionVariants ==
    pc = "done" =>
        \A i \in HoistedDefs(new) :
            (Captures(new[i]) # <<>> /\ IsActionHoist(HoistOf(new[i]))) => SameBinding(new[i])

(***************************************************************************)
(* Hoisted functions nested in a hoisted action.                           *)
(***************************************************************************)
\* the hoists of a function-like of scope InnerScope (j) and of the action of
\* scope MidScope around it (k)
NestedHoists ==
    {jk \in (1..Len(self.log)) \X (1..Len(self.log)) :
        /\ FnScope(jk[1]) = InnerScope /\ FnScope(jk[2]) = MidScope
        /\ IsActionHoist(self.log[jk[2]])}
\* the proxy of the hoist j is bound to its captures as the body of the hoist
\* k reads them
BoundInOuter(j, k) ==
    LET inner == self.log[j].ids_from_closure
        rewritten == [i \in 1..Len(inner) |->
                         CR_with("Expr", NameToExpr(inner[i]),
                                 self.log[k].ids_from_closure, self.private_ctxt)]
    IN \A p \in {q \in Proxies(new) : q.args[1].id.sym = self.log[j].name} :
          /\ BindWrappers(p) # {}
          /\ \A c \in BindWrappers(p) :
                Len(c.args) = 2 /\ IsEncryptCall(c.args[2]) /\ c.args[2].args[2].elems = rewritten

\* C29: when a function hoisted inside an action captures a variable
\* declared in a scope around that action, the action captures the variable
\* too, the inner function is hoisted first, and in the hoisted body of the
\* action the inner proxy is bound to the placeholder of the action.
C29_NestedCaptures ==
    pc = "done" =>
        \A jk \in NestedHoists :
            LET inner == self.log[jk[1]].ids_from_closure
                outer == self.log[jk[2]].ids_from_closure
            IN (\E n \in 1..Len(inner) : inner[n].id.ctxt \in EnclosingScopes(MidScope)) =>
                  /\ jk[1] < jk[2]
                  /\ \A n \in 1..Len(inner) :
                        inner[n].id.ctxt \in EnclosingScopes(MidScope)
                            => \E m \in 1..Len(outer) : outer[m] = inner[n]
                  /\ BoundInOuter(jk[1], jk[2])

C29_Witness ==
    /\ pc = "done"
    /\ \E jk \in NestedHoists :
          /\ \E n \in 1..Len(self.log[jk[1]].ids_from_closure) :
                self.log[jk[1]].ids_from_closure[n].id.ctxt \in EnclosingScopes(MidScope)
          /\ IsCacheHoist(self.log[jk[1]])
          /\ \E p \in Proxies(new) :
                p.args[1].id.sym = self.log[jk[1]].name /\ BindWrappers(p) # {}

(***************************************************************************)
(* The imports of the functions the output calls.                          *)
(***************************************************************************)
CallsOf(sym) == {c \in Calls(new) : c.callee = EIdent(QuoteIdent(sym))}
ImportsFor ==
    /\ CallsOf("registerServerReference") # {} => Occurs(ServerReferenceImport) # {}
    /\ CallsOf("encryptActionBoundArgs") # {} => Occurs(EncryptionImport) # {}
    /\ CallsOf("decryptActionBoundArgs") # {} => Occurs(EncryptionImport) # {}

\* C30: when the pass reported no diagnostic and its output calls
\* registerServerReference, encryptActionBoundArgs or decryptActionBoundArgs,
\* the output imports that function, on the server layer and on the client
\* layer.
C30_CallsImported == (pc = "done" /\ self.handler = <<>>) => ImportsFor

\* the same on the server layer
C30_ServerLayer ==
    (pc = "done" /\ self.handler = <<>> /\ self.config.is_react_server_layer) => ImportsFor

====
